---- MODULE Spec2Model ----
(***************************************************************************)
(* Model of the SQL schema differ of the migration engine                  *)
(* (sql-migration-connector/src/sql_schema_differ.rs): SqlSchemaDiffer     *)
(* computes a SqlSchemaDiff from two SqlSchema snapshots, and              *)
(* SqlSchemaDiff::into_steps linearizes it into migration steps.           *)
(* The destructive changes checker (sql_destructive_changes_checker) then  *)
(* classifies the steps against the rows of the database, and the          *)
(* migration is applied or held back.                                      *)
(* Further sections model the up command of the migration engine           *)
(* (core/src/commands/up.rs), QueryArguments::take_abs and                 *)
(* needs_reversed_order of the query connector, and columns_match of the   *)
(* introspection connector, each under a specification of its own.         *)
(*                                                                         *)
(* Rust Vec<T> is a sequence; Option<T> is a sequence of length 0 or 1     *)
(* (None == <<>>, Some(x) == <<x>>).                                       *)
(***************************************************************************)
EXTENDS Integers, Sequences, FiniteSets, TLC

VARIABLES previous, next, sql_family, diff, steps, pc,
          database, force, plan, warnings, unexecutable_migrations,
          migrations, last_applied_migration, unapplied_migrations,
          applied, persistence,
          query_arguments, a_cols, b_cols, result

\* The state of the checker and of the database the migration applies to.
checkvars == <<database, force, plan, warnings, unexecutable_migrations>>

\* The state of the up command of the migration engine: its input, what
\* persistence reports, and what it has applied and recorded.
upvars == <<migrations, last_applied_migration, unapplied_migrations,
            applied, persistence>>

\* The arguments of a call of one of the helper functions, and what a
\* command or a call returns.
callvars == <<query_arguments, a_cols, b_cols, result>>

vars == <<previous, next, sql_family, diff, steps, pc,
          database, force, plan, warnings, unexecutable_migrations,
          migrations, last_applied_migration, unapplied_migrations,
          applied, persistence,
          query_arguments, a_cols, b_cols, result>>

----------------------------------------------------------------------------
(* Generic helpers for iterator chains.                                    *)

RECURSIVE Flatten(_)
Flatten(ss) == IF ss = <<>> THEN <<>> ELSE Head(ss) \o Flatten(Tail(ss))

Range(s) == {s[i] : i \in 1..Len(s)}

None == <<>>

Some(x) == <<x>>

\* Iterator::find: the first element satisfying the predicate, as an Option.
FindFirst(s, P(_)) ==
    LET hits == SelectSeq(s, P) IN IF hits = <<>> THEN None ELSE Some(Head(hits))

----------------------------------------------------------------------------
(* Names.  str::to_lowercase on the names the model uses, for the          *)
(* case-insensitive (?i) patterns of POSTGRES_IGNORED_TABLES.              *)

to_lowercase(s) ==
    CASE s = "A" -> "a"
      [] s = "Spatial_Ref_Sys" -> "spatial_ref_sys"
      [] s = "_Migration" -> "_migration"
      [] s = "E" -> "e"
      [] OTHER -> s

MIGRATION_TABLE_NAME == "_Migration"

\* RegexSet::is_match of POSTGRES_IGNORED_TABLES: "(?i)^spatial_ref_sys$",
\* "(?i)^geometry_columns$".
POSTGRES_IGNORED_TABLES(table_name) ==
    to_lowercase(table_name) \in {"spatial_ref_sys", "geometry_columns"}

EMPTY_REGEXSET(table_name) == FALSE

\* DiffingOptions::from_database_info: the ignore set chosen by family.
ignore_tables(family, table_name) ==
    IF family = "Postgres" THEN POSTGRES_IGNORED_TABLES(table_name)
    ELSE EMPTY_REGEXSET(table_name)

is_mysql(family) == family = "Mysql"

----------------------------------------------------------------------------
(* Matching.                                                               *)

tables_match_ci(p, n) == to_lowercase(p.name) = to_lowercase(n.name)

tables_match(p, n) == p.name = n.name

enums_match_ci(p, n) == to_lowercase(p.name) = to_lowercase(n.name)

enums_match(p, n) == p.name = n.name

\* SqlSchema::has_table
has_table(schema, name) == \E i \in 1..Len(schema.tables) : schema.tables[i].name = name

\* Table::column lookup used by ForeignKeyRef::constrained_columns.
constrained_columns(table, fk) ==
    Flatten([i \in 1..Len(fk.columns) |->
        SelectSeq(table.columns, LAMBDA c : c.name = fk.columns[i])])

RECURSIVE zip_columns_match(_, _)
zip_columns_match(pcs, ncs) ==
    IF pcs = <<>> \/ ncs = <<>> THEN TRUE
    ELSE /\ ~(\/ Head(pcs).name # Head(ncs).name
              \/ Head(pcs).tpe.family # Head(ncs).tpe.family)
         /\ zip_columns_match(Tail(pcs), Tail(ncs))

\* foreign_keys_match that also compares the constraint names.
foreign_keys_match_by_constraint_name(ptable, pfk, ntable, nfk) ==
    IF pfk.constraint_name # nfk.constraint_name THEN FALSE
    ELSE IF pfk.referenced_table # nfk.referenced_table THEN FALSE
    ELSE IF Len(pfk.referenced_columns) # Len(nfk.referenced_columns) THEN FALSE
    ELSE IF Len(constrained_columns(ptable, pfk)) # Len(constrained_columns(ntable, nfk)) THEN FALSE
    ELSE zip_columns_match(constrained_columns(ptable, pfk), constrained_columns(ntable, nfk))

\* foreign_keys_match without the comparison of the referenced tables.
foreign_keys_match_any_target(ptable, pfk, ntable, nfk) ==
    IF Len(pfk.referenced_columns) # Len(nfk.referenced_columns) THEN FALSE
    ELSE IF Len(constrained_columns(ptable, pfk)) # Len(constrained_columns(ntable, nfk)) THEN FALSE
    ELSE zip_columns_match(constrained_columns(ptable, pfk), constrained_columns(ntable, nfk))

foreign_keys_match(ptable, pfk, ntable, nfk) ==
    IF pfk.referenced_table # nfk.referenced_table THEN FALSE
    ELSE IF Len(pfk.referenced_columns) # Len(nfk.referenced_columns) THEN FALSE
    ELSE IF Len(constrained_columns(ptable, pfk)) # Len(constrained_columns(ntable, nfk)) THEN FALSE
    ELSE zip_columns_match(constrained_columns(ptable, pfk), constrained_columns(ntable, nfk))

----------------------------------------------------------------------------
(* TableDiffer, ColumnDiffer, EnumDiffer and the index helpers             *)
(* (sql_schema_differ/{table,column,enums,index}.rs).                      *)

column_pairs(tables) ==
    Flatten([i \in 1..Len(tables.previous.columns) |->
        LET pcol == tables.previous.columns[i]
            found == FindFirst(tables.next.columns, LAMBDA n : n.name = pcol.name)
        IN  IF found = None THEN <<>> ELSE <<[previous |-> pcol, next |-> found[1]]>>])

dropped_columns(tables) ==
    SelectSeq(tables.previous.columns,
        LAMBDA pcol : ~\E n \in Range(tables.next.columns) : n.name = pcol.name)

added_columns(tables) ==
    SelectSeq(tables.next.columns,
        LAMBDA ncol : ~\E p \in Range(tables.previous.columns) : p.name = ncol.name)

differs_in_something(column_differ) ==
    \/ column_differ.previous.tpe.family # column_differ.next.tpe.family
    \/ column_differ.previous.tpe.arity # column_differ.next.tpe.arity
    \/ column_differ.previous.default # column_differ.next.default
    \/ column_differ.previous.auto_increment # column_differ.next.auto_increment

dropped_primary_key(tables) ==
    IF tables.previous.primary_key = None THEN None
    ELSE IF tables.next.primary_key = None THEN tables.previous.primary_key
    ELSE IF tables.previous.primary_key[1].columns # tables.next.primary_key[1].columns
         THEN tables.previous.primary_key
    ELSE None

created_primary_key(tables) ==
    IF tables.next.primary_key = None THEN None
    ELSE IF tables.previous.primary_key = None THEN tables.next.primary_key
    ELSE IF tables.previous.primary_key[1].columns # tables.next.primary_key[1].columns
         THEN tables.next.primary_key
    ELSE None

created_foreign_keys(tables) ==
    SelectSeq(tables.next.foreign_keys,
        LAMBDA nfk : ~\E pfk \in Range(tables.previous.foreign_keys) :
            foreign_keys_match(tables.previous, pfk, tables.next, nfk))

dropped_foreign_keys(tables) ==
    SelectSeq(tables.previous.foreign_keys,
        LAMBDA pfk : ~\E nfk \in Range(tables.next.foreign_keys) :
            foreign_keys_match(tables.previous, pfk, tables.next, nfk))

indexes_match(first, second) ==
    first.columns = second.columns /\ first.tpe = second.tpe

created_indexes(tables) ==
    SelectSeq(tables.next.indices,
        LAMBDA nidx : ~\E pidx \in Range(tables.previous.indices) : indexes_match(pidx, nidx))

dropped_indexes(tables) ==
    SelectSeq(tables.previous.indices,
        LAMBDA pidx : ~\E nidx \in Range(tables.next.indices) : indexes_match(pidx, nidx))

\* A rename: exactly one previous and one next index share columns and type,
\* and their names differ.
index_pairs(tables) ==
    Flatten([i \in 1..Len(tables.previous.indices) |->
        LET pidx == tables.previous.indices[i]
            nexts == SelectSeq(tables.next.indices, LAMBDA n : indexes_match(pidx, n))
            prevs == SelectSeq(tables.previous.indices, LAMBDA p : indexes_match(p, pidx))
        IN  IF Len(nexts) = 1 /\ Len(prevs) = 1 /\ nexts[1].name # pidx.name
            THEN <<<<pidx, nexts[1]>>>> ELSE <<>>])

\* Called with the previous table and one of its dropped indexes: the index
\* is on exactly the columns of one of that table's foreign keys.
index_covers_fk(table, index) ==
    \E fk \in Range(table.foreign_keys) : fk.columns = index.columns

created_values(differ) ==
    SelectSeq(differ.next.values, LAMBDA v : v \notin Range(differ.previous.values))

dropped_values(differ) ==
    SelectSeq(differ.previous.values, LAMBDA v : v \notin Range(differ.next.values))

\* AlterEnum::is_empty
is_empty(step) == step.created_variants = <<>> /\ step.dropped_variants = <<>>

----------------------------------------------------------------------------
(* SqlSchemaDiffer.  self == [previous, next, sql_family].                 *)

table_is_ignored(self, table_name) ==
    table_name = MIGRATION_TABLE_NAME \/ ignore_tables(self.sql_family, table_name)

previous_tables(self) ==
    SelectSeq(self.previous.tables, LAMBDA table : ~table_is_ignored(self, table.name))

next_tables(self) ==
    SelectSeq(self.next.tables, LAMBDA table : ~table_is_ignored(self, table.name))

created_tables(self) ==
    SelectSeq(next_tables(self), LAMBDA next_table : ~has_table(self.previous, next_table.name))

dropped_tables(self) ==
    SelectSeq(previous_tables(self),
        LAMBDA previous_table :
            ~\E next_table \in Range(next_tables(self)) : tables_match(previous_table, next_table))

\* The tables present in both schemas; iterates previous.tables and
\* next.tables themselves, not previous_tables() and next_tables().
table_pairs(self) ==
    Flatten([i \in 1..Len(self.previous.tables) |->
        LET previous_table == self.previous.tables[i]
            found == FindFirst(self.next.tables,
                               LAMBDA next_table : tables_match(previous_table, next_table))
        IN  IF found = None THEN <<>>
            ELSE <<[previous |-> previous_table, next |-> found[1]]>>])

previous_enums(self) == self.previous.enums

next_enums(self) == self.next.enums

enum_pairs(self) ==
    Flatten([i \in 1..Len(previous_enums(self)) |->
        LET prev == previous_enums(self)[i]
            found == FindFirst(next_enums(self), LAMBDA nxt : enums_match(prev, nxt))
        IN  IF found = None THEN <<>> ELSE <<[previous |-> prev, next |-> found[1]]>>])

created_enums(self) ==
    SelectSeq(next_enums(self),
        LAMBDA nxt : ~\E prev \in Range(previous_enums(self)) : enums_match(prev, nxt))

dropped_enums(self) ==
    SelectSeq(previous_enums(self),
        LAMBDA prev : ~\E nxt \in Range(next_enums(self)) : enums_match(prev, nxt))

create_tables(self) ==
    [i \in 1..Len(created_tables(self)) |-> [table |-> created_tables(self)[i]]]

\* drop_tables without the foreign keys of the dropped tables.
drop_tables_without_foreign_keys(self) ==
    << [i \in 1..Len(dropped_tables(self)) |-> [name |-> dropped_tables(self)[i].name]], <<>> >>

\* Returns <<dropped_tables, dropped_foreign_keys>>.
drop_tables(self) ==
    LET dts == dropped_tables(self) IN
    << [i \in 1..Len(dts) |-> [name |-> dts[i].name]],
       Flatten([i \in 1..Len(dts) |->
           Flatten([j \in 1..Len(dts[i].foreign_keys) |->
               LET fk == dts[i].foreign_keys[j] IN
               IF fk.constraint_name = None THEN <<>>
               ELSE <<[table |-> dts[i].name, constraint_name |-> fk.constraint_name[1]]>>])]) >>

push_foreign_keys_from_created_tables(acc, tables) ==
    acc \o Flatten([i \in 1..Len(tables) |->
        [j \in 1..Len(tables[i].foreign_keys) |->
            [table |-> tables[i].name, foreign_key |-> tables[i].foreign_keys[j]]]])

push_created_foreign_keys(acc, pairs) ==
    acc \o Flatten([i \in 1..Len(pairs) |->
        LET fks == created_foreign_keys(pairs[i]) IN
        [j \in 1..Len(fks) |-> [table |-> pairs[i].next.name, foreign_key |-> fks[j]]]])

add_foreign_keys(self) ==
    push_created_foreign_keys(
        push_foreign_keys_from_created_tables(<<>>, created_tables(self)),
        table_pairs(self))

drop_columns(differ) ==
    [i \in 1..Len(dropped_columns(differ)) |->
        [change |-> "DropColumn", name |-> dropped_columns(differ)[i].name]]

add_columns(differ) ==
    [i \in 1..Len(added_columns(differ)) |->
        [change |-> "AddColumn", column |-> added_columns(differ)[i]]]

\* alter_columns carrying the previous definition of the column.
alter_columns_previous_definition(table_differ) ==
    Flatten([i \in 1..Len(column_pairs(table_differ)) |->
        LET column_differ == column_pairs(table_differ)[i] IN
        IF differs_in_something(column_differ)
        THEN <<[change |-> "AlterColumn", name |-> column_differ.previous.name,
                column |-> column_differ.previous]>>
        ELSE <<>>])

alter_columns(table_differ) ==
    Flatten([i \in 1..Len(column_pairs(table_differ)) |->
        LET column_differ == column_pairs(table_differ)[i] IN
        IF differs_in_something(column_differ)
        THEN <<[change |-> "AlterColumn", name |-> column_differ.previous.name,
                column |-> column_differ.next]>>
        ELSE <<>>])

add_primary_key(differ) ==
    LET pk == created_primary_key(differ) IN
    IF pk # None /\ pk[1].columns # <<>>
    THEN <<[change |-> "AddPrimaryKey", columns |-> pk[1].columns]>>
    ELSE <<>>

drop_primary_key(differ) ==
    LET pk == dropped_primary_key(differ) IN
    IF pk # None
    THEN <<[change |-> "DropPrimaryKey", constraint_name |-> pk[1].constraint_name]>>
    ELSE <<>>

\* alter_tables without the filter on empty change lists.
alter_tables_unfiltered(self) ==
    [i \in 1..Len(table_pairs(self)) |->
        LET tables == table_pairs(self)[i] IN
        [table |-> tables.next,
         changes |-> drop_primary_key(tables) \o drop_columns(tables) \o add_columns(tables)
                     \o alter_columns(tables) \o add_primary_key(tables)]]

\* alter_tables with the primary key added before the columns are altered.
alter_tables_pk_early(self) ==
    Flatten([i \in 1..Len(table_pairs(self)) |->
        LET tables == table_pairs(self)[i]
            changes == drop_primary_key(tables)
                       \o drop_columns(tables)
                       \o add_columns(tables)
                       \o add_primary_key(tables)
                       \o alter_columns(tables)
        IN  IF changes # <<>> THEN <<[table |-> tables.next, changes |-> changes]>> ELSE <<>>])

alter_tables(self) ==
    Flatten([i \in 1..Len(table_pairs(self)) |->
        LET tables == table_pairs(self)[i]
            changes == drop_primary_key(tables)
                       \o drop_columns(tables)
                       \o add_columns(tables)
                       \o alter_columns(tables)
                       \o add_primary_key(tables)
        IN  IF changes # <<>> THEN <<[table |-> tables.next, changes |-> changes]>> ELSE <<>>])

drop_foreign_keys(self, acc) ==
    acc \o Flatten([i \in 1..Len(table_pairs(self)) |->
        LET differ == table_pairs(self)[i] IN
        Flatten([j \in 1..Len(dropped_foreign_keys(differ)) |->
            LET fk == dropped_foreign_keys(differ)[j] IN
            IF fk.constraint_name = None THEN <<>>
            ELSE <<[table |-> differ.previous.name, constraint_name |-> fk.constraint_name[1]]>>])])

\* create_indexes for the matched table pairs only.
create_indexes_of_pairs_only(self) ==
    Flatten([i \in 1..Len(table_pairs(self)) |->
        LET tables == table_pairs(self)[i] IN
        [j \in 1..Len(created_indexes(tables)) |->
            [table |-> tables.next.name, index |-> created_indexes(tables)[j]]]])

create_indexes(self) ==
    Flatten([i \in 1..Len(created_tables(self)) |->
        LET table == created_tables(self)[i] IN
        [j \in 1..Len(table.indices) |-> [table |-> table.name, index |-> table.indices[j]]]])
    \o
    Flatten([i \in 1..Len(table_pairs(self)) |->
        LET tables == table_pairs(self)[i] IN
        [j \in 1..Len(created_indexes(tables)) |->
            [table |-> tables.next.name, index |-> created_indexes(tables)[j]]]])

\* drop_indexes with the foreign key test applied on every family.
drop_indexes_every_family(self) ==
    Flatten([i \in 1..Len(table_pairs(self)) |->
        LET tables == table_pairs(self)[i] IN
        Flatten([j \in 1..Len(dropped_indexes(tables)) |->
            LET index == dropped_indexes(tables)[j] IN
            IF index_covers_fk(tables.previous, index) THEN <<>>
            ELSE <<[table |-> tables.previous.name, name |-> index.name]>>])])

drop_indexes(self) ==
    Flatten([i \in 1..Len(table_pairs(self)) |->
        LET tables == table_pairs(self)[i] IN
        Flatten([j \in 1..Len(dropped_indexes(tables)) |->
            LET index == dropped_indexes(tables)[j] IN
            IF is_mysql(self.sql_family) /\ index_covers_fk(tables.previous, index) THEN <<>>
            ELSE <<[table |-> tables.previous.name, name |-> index.name]>>])])

\* alter_indexes with the two names of the rename exchanged.
alter_indexes_names_swapped(self) ==
    Flatten([i \in 1..Len(table_pairs(self)) |->
        LET differ == table_pairs(self)[i] IN
        [j \in 1..Len(index_pairs(differ)) |->
            [index_name |-> index_pairs(differ)[j][2].name,
             index_new_name |-> index_pairs(differ)[j][1].name,
             table |-> differ.next.name]]])

alter_indexes(self) ==
    Flatten([i \in 1..Len(table_pairs(self)) |->
        LET differ == table_pairs(self)[i] IN
        [j \in 1..Len(index_pairs(differ)) |->
            [index_name |-> index_pairs(differ)[j][1].name,
             index_new_name |-> index_pairs(differ)[j][2].name,
             table |-> differ.next.name]]])

create_enums(self) ==
    [i \in 1..Len(created_enums(self)) |->
        [name |-> created_enums(self)[i].name, variants |-> created_enums(self)[i].values]]

drop_enums(self) ==
    [i \in 1..Len(dropped_enums(self)) |-> [name |-> dropped_enums(self)[i].name]]

\* alter_enums without the is_empty check.
alter_enums_unfiltered(self) ==
    [i \in 1..Len(enum_pairs(self)) |->
        LET differ == enum_pairs(self)[i] IN
        [created_variants |-> created_values(differ),
         dropped_variants |-> dropped_values(differ),
         name |-> differ.previous.name]]

alter_enums(self) ==
    Flatten([i \in 1..Len(enum_pairs(self)) |->
        LET differ == enum_pairs(self)[i]
            step == [created_variants |-> created_values(differ),
                     dropped_variants |-> dropped_values(differ),
                     name |-> differ.previous.name]
        IN  IF is_empty(step) THEN <<>> ELSE <<step>>])

diff_internal(self) ==
    [add_foreign_keys  |-> add_foreign_keys(self),
     drop_foreign_keys |-> drop_foreign_keys(self, drop_tables(self)[2]),
     drop_tables       |-> drop_tables(self)[1],
     create_tables     |-> create_tables(self),
     alter_tables      |-> alter_tables(self),
     create_indexes    |-> create_indexes(self),
     drop_indexes      |-> drop_indexes(self),
     alter_indexes     |-> alter_indexes(self),
     create_enums      |-> create_enums(self),
     drop_enums        |-> drop_enums(self),
     alter_enums       |-> alter_enums(self)]

\* SqlSchemaDiffer::diff
Differ == [previous |-> previous, next |-> next, sql_family |-> sql_family]

----------------------------------------------------------------------------
(* SqlSchemaDiff::into_steps.                                              *)

wrap_as_step(list, kind) == [i \in 1..Len(list) |-> [kind |-> kind, step |-> list[i]]]

\* Variants of into_steps with two groups out of place.
into_steps_renames_first(d) ==
    wrap_as_step(d.alter_indexes, "AlterIndex")
    \o wrap_as_step(d.create_enums, "CreateEnum")
    \o wrap_as_step(d.alter_enums, "AlterEnum")
    \o wrap_as_step(d.drop_indexes, "DropIndex")
    \o wrap_as_step(d.drop_foreign_keys, "DropForeignKey")
    \o wrap_as_step(d.create_tables, "CreateTable")
    \o wrap_as_step(d.alter_tables, "AlterTable")
    \o wrap_as_step(d.create_indexes, "CreateIndex")
    \o wrap_as_step(d.add_foreign_keys, "AddForeignKey")
    \o wrap_as_step(d.drop_tables, "DropTable")
    \o wrap_as_step(d.drop_enums, "DropEnum")

into_steps_fks_before_indexes(d) ==
    wrap_as_step(d.create_enums, "CreateEnum")
    \o wrap_as_step(d.alter_enums, "AlterEnum")
    \o wrap_as_step(d.drop_indexes, "DropIndex")
    \o wrap_as_step(d.drop_foreign_keys, "DropForeignKey")
    \o wrap_as_step(d.create_tables, "CreateTable")
    \o wrap_as_step(d.alter_tables, "AlterTable")
    \o wrap_as_step(d.add_foreign_keys, "AddForeignKey")
    \o wrap_as_step(d.create_indexes, "CreateIndex")
    \o wrap_as_step(d.drop_tables, "DropTable")
    \o wrap_as_step(d.drop_enums, "DropEnum")
    \o wrap_as_step(d.alter_indexes, "AlterIndex")

into_steps_tables_dropped_first(d) ==
    wrap_as_step(d.create_enums, "CreateEnum")
    \o wrap_as_step(d.alter_enums, "AlterEnum")
    \o wrap_as_step(d.drop_tables, "DropTable")
    \o wrap_as_step(d.drop_indexes, "DropIndex")
    \o wrap_as_step(d.drop_foreign_keys, "DropForeignKey")
    \o wrap_as_step(d.create_tables, "CreateTable")
    \o wrap_as_step(d.alter_tables, "AlterTable")
    \o wrap_as_step(d.create_indexes, "CreateIndex")
    \o wrap_as_step(d.add_foreign_keys, "AddForeignKey")
    \o wrap_as_step(d.drop_enums, "DropEnum")
    \o wrap_as_step(d.alter_indexes, "AlterIndex")

into_steps(d) ==
    wrap_as_step(d.create_enums, "CreateEnum")
    \o wrap_as_step(d.alter_enums, "AlterEnum")
    \o wrap_as_step(d.drop_indexes, "DropIndex")
    \o wrap_as_step(d.drop_foreign_keys, "DropForeignKey")
    \o wrap_as_step(d.create_tables, "CreateTable")
    \o wrap_as_step(d.alter_tables, "AlterTable")
    \o wrap_as_step(d.create_indexes, "CreateIndex")
    \o wrap_as_step(d.add_foreign_keys, "AddForeignKey")
    \o wrap_as_step(d.drop_tables, "DropTable")
    \o wrap_as_step(d.drop_enums, "DropEnum")
    \o wrap_as_step(d.alter_indexes, "AlterIndex")

----------------------------------------------------------------------------
(* The snapshots the differ is run on.                                     *)

MaxTables == 2
MaxColumns == 2
MaxIndexes == 2
MaxEnums == 2
MaxSteps == 1

SqlFamilies == {"Postgres", "Mysql", "Sqlite"}

TableNames == <<"A", "a", "_Migration", "Spatial_Ref_Sys">>
ColumnNames == <<"x", "y", "z">>
IndexNames == <<"i1", "i2", "i3">>
EnumNames == <<"E", "e", "f">>
Variants == {"black", "white"}

Column(name, family, arity) ==
    [name |-> name, tpe |-> [family |-> family, arity |-> arity],
     default |-> None, auto_increment |-> FALSE]

Table(name, columns, primary_key, indices, foreign_keys) ==
    [name |-> name, columns |-> columns, primary_key |-> primary_key,
     indices |-> indices, foreign_keys |-> foreign_keys]

ForeignKey(constraint_name, columns, referenced_table) ==
    [constraint_name |-> constraint_name, columns |-> columns,
     referenced_table |-> referenced_table, referenced_columns |-> <<"x">>,
     on_delete_action |-> "NoAction"]

EmptySchema == [tables |-> <<>>, enums |-> <<>>]

\* Subsets of the names in ord, of at most max elements.
NameSets(ord, max) == {ns \in SUBSET Range(ord) : Cardinality(ns) <= max}

\* Option<T> over a set.
Opt(S) == {None} \cup {Some(x) : x \in S}

\* The entities made of the bodies picked for the names of ns, in the order
\* of ord; pick[n] is an Option of a body.
Listed(ord, ns, pick, Make(_, _)) ==
    Flatten([i \in 1..Len(ord) |->
        IF ord[i] \in ns /\ pick[ord[i]] # None
        THEN <<Make(ord[i], pick[ord[i]][1])>> ELSE <<>>])

\* Sequences without repetition, of at most max elements of S.
DistinctSeqs(S, max) ==
    {q \in UNION {[1..n -> S] : n \in 0..max} :
        \A i, j \in 1..Len(q) : i # j => q[i] # q[j]}

\* Subsequences of ord (elements kept in the order of ord), at most max long.
SubSeqs(ord, max) ==
    {SelectSeq(ord, LAMBDA e : e \in ns) : ns \in NameSets(ord, max)}

(* Slice 1: up to MaxTables table names; each table has one column and at  *)
(* most one index or one foreign key (named, or unnamed as on SQLite).     *)
SimpleIndex == [name |-> "i1", columns |-> <<"x">>, tpe |-> "Normal"]

SimpleBodies ==
    {[indices |-> <<>>, foreign_keys |-> <<>>],
     [indices |-> <<SimpleIndex>>, foreign_keys |-> <<>>],
     [indices |-> <<>>, foreign_keys |-> <<ForeignKey(Some("fk"), <<"x">>, "A")>>],
     [indices |-> <<>>, foreign_keys |-> <<ForeignKey(None, <<"x">>, "A")>>]}

SimpleTable(name, body) ==
    Table(name, <<Column("x", "Int", "Required")>>, None, body.indices, body.foreign_keys)

InitTables ==
    \E ns \in NameSets(TableNames, MaxTables) :
    \E pp \in [ns -> Opt(SimpleBodies)], pn \in [ns -> Opt(SimpleBodies)] :
        /\ previous = [tables |-> Listed(TableNames, ns, pp, SimpleTable), enums |-> <<>>]
        /\ next = [tables |-> Listed(TableNames, ns, pn, SimpleTable), enums |-> <<>>]
        /\ sql_family \in SqlFamilies

(* Slice 2: one table, present in both snapshots, with up to MaxColumns    *)
(* columns and an optional primary key over them.  Nothing the differ does *)
(* with columns or primary keys depends on the family.                     *)
ColumnTypes ==
    {[family |-> "Int", arity |-> "Required"], [family |-> "String", arity |-> "Nullable"]}

Columns == {Column(n, t.family, t.arity) : n \in Range(ColumnNames), t \in ColumnTypes}

ColumnLists ==
    {q \in UNION {[1..n -> Columns] : n \in 0..MaxColumns} :
        \A i, j \in 1..Len(q) : i < j =>
            \E a, b \in 1..Len(ColumnNames) :
                a < b /\ ColumnNames[a] = q[i].name /\ ColumnNames[b] = q[j].name}

PrimaryKeys(columns) ==
    Opt({[columns |-> c, constraint_name |-> None] :
            c \in SubSeqs([i \in 1..Len(columns) |-> columns[i].name], MaxColumns)})

ColumnBodies ==
    UNION {{[columns |-> cs, primary_key |-> pk] : pk \in PrimaryKeys(cs)} : cs \in ColumnLists}

ColumnTable(name, body) == Table(name, body.columns, body.primary_key, <<>>, <<>>)

InitColumns ==
    \E name \in {"A", MIGRATION_TABLE_NAME} :
    \E bp \in ColumnBodies, bn \in ColumnBodies :
        /\ previous = [tables |-> <<ColumnTable(name, bp)>>, enums |-> <<>>]
        /\ next = [tables |-> <<ColumnTable(name, bn)>>, enums |-> <<>>]
        /\ sql_family = "Postgres"

(* Slice 3: one table "A" with columns x and y, present in both snapshots, *)
(* with up to MaxIndexes indexes and an optional foreign key on x.         *)
IndexBodies ==
    {[columns |-> <<"x">>, tpe |-> "Unique"], [columns |-> <<"x">>, tpe |-> "Normal"],
     [columns |-> <<"x", "y">>, tpe |-> "Normal"]}

MakeIndex(name, body) == [name |-> name, columns |-> body.columns, tpe |-> body.tpe]

IndexLists ==
    UNION {{Listed(IndexNames, ns, pick, MakeIndex) : pick \in [ns -> {Some(b) : b \in IndexBodies}]} :
               ns \in NameSets(IndexNames, MaxIndexes)}

IndexTable(indices, foreign_keys) ==
    Table("A", <<Column("x", "Int", "Required"), Column("y", "Int", "Required")>>,
          None, indices, foreign_keys)

InitIndexes ==
    \E ip \in IndexLists, inx \in IndexLists :
    \E fp \in {<<>>, <<ForeignKey(Some("fk"), <<"x">>, "A")>>},
       fn \in {<<>>, <<ForeignKey(Some("fk"), <<"x">>, "A")>>} :
        /\ previous = [tables |-> <<IndexTable(ip, fp)>>, enums |-> <<>>]
        /\ next = [tables |-> <<IndexTable(inx, fn)>>, enums |-> <<>>]
        /\ sql_family \in SqlFamilies

(* Slice 5: table "A" with columns x and y and at most one foreign key, to *)
(* "A" itself or to table "a"; the type family of x and the foreign key    *)
(* vary between the snapshots.                                             *)
ForeignKeyTo(constraint_name, columns, referenced_table, referenced_columns) ==
    [constraint_name |-> constraint_name, columns |-> columns,
     referenced_table |-> referenced_table, referenced_columns |-> referenced_columns,
     on_delete_action |-> "NoAction"]

ForeignKeys ==
    {ForeignKeyTo(name, columns, target, referenced) :
        name \in Opt({"fk"}),
        columns \in {<<"x">>, <<"y">>, <<"x", "y">>, <<"y", "x">>},
        target \in {"A", "a"},
        referenced \in {<<"x">>, <<"x", "y">>}}

ForeignKeyTable(name, family, foreign_keys) ==
    Table(name, <<Column("x", family, "Required"), Column("y", "Int", "Required")>>,
          None, <<>>, foreign_keys)

InitForeignKeys ==
    \E fp \in Opt(ForeignKeys), fn \in Opt(ForeignKeys) :
    \E xp \in {"Int", "String"}, xn \in {"Int", "String"} :
        /\ previous = [tables |-> <<ForeignKeyTable("A", xp, fp), ForeignKeyTable("a", "Int", <<>>)>>,
                       enums |-> <<>>]
        /\ next = [tables |-> <<ForeignKeyTable("A", xn, fn), ForeignKeyTable("a", "Int", <<>>)>>,
                   enums |-> <<>>]
        /\ sql_family \in SqlFamilies

(* Slice 4: up to MaxEnums enums, each any repetition-free list of         *)
(* variants; no tables.                                                    *)
VariantLists == DistinctSeqs(Variants, Cardinality(Variants))

MakeEnum(name, values) == [name |-> name, values |-> values]

InitEnums ==
    \E ns \in NameSets(EnumNames, MaxEnums) :
    \E pp \in [ns -> Opt(VariantLists)],
       pn \in [ns -> Opt(VariantLists)] :
        /\ previous = [tables |-> <<>>, enums |-> Listed(EnumNames, ns, pp, MakeEnum)]
        /\ next = [tables |-> <<>>, enums |-> Listed(EnumNames, ns, pn, MakeEnum)]
        /\ sql_family = "Postgres"

EmptyDiff ==
    [add_foreign_keys |-> <<>>, drop_foreign_keys |-> <<>>, drop_tables |-> <<>>,
     create_tables |-> <<>>, alter_tables |-> <<>>, create_indexes |-> <<>>,
     drop_indexes |-> <<>>, alter_indexes |-> <<>>, create_enums |-> <<>>,
     drop_enums |-> <<>>, alter_enums |-> <<>>]

\* The differ runs on two snapshots alone: no database, nothing checked.
NoDatabase ==
    /\ database = [schema |-> EmptySchema, rows |-> <<>>]
    /\ force = FALSE
    /\ plan = [warnings |-> <<>>, unexecutable_migrations |-> <<>>]
    /\ warnings = <<>>
    /\ unexecutable_migrations = <<>>

\* No up command runs.
NoUpCommand ==
    /\ migrations = <<>>
    /\ last_applied_migration = None
    /\ unapplied_migrations = <<>>
    /\ applied = <<>>
    /\ persistence = <<>>

\* No helper function is called and nothing is returned.
NoCall ==
    /\ query_arguments = [take |-> None]
    /\ a_cols = <<>>
    /\ b_cols = <<>>
    /\ result = None

Init ==
    /\ \/ InitTables
       \/ InitColumns
       \/ InitIndexes
       \/ InitEnums
       \/ InitForeignKeys
    /\ diff = EmptyDiff
    /\ steps = <<>>
    /\ pc = "start"
    /\ NoDatabase
    /\ NoUpCommand
    /\ NoCall

\* SqlSchemaDiffer::diff(previous, next, sql_family, options)
Diff ==
    /\ pc = "start"
    /\ diff' = diff_internal(Differ)
    /\ pc' = "diffed"
    /\ UNCHANGED <<previous, next, sql_family, steps>>
    /\ UNCHANGED checkvars
    /\ UNCHANGED <<upvars, callvars>>

\* SqlSchemaDiff::into_steps(self)
IntoSteps ==
    /\ pc = "diffed"
    /\ steps' = into_steps(diff)
    /\ pc' = "done"
    /\ UNCHANGED <<previous, next, sql_family, diff>>
    /\ UNCHANGED checkvars
    /\ UNCHANGED <<upvars, callvars>>

Next == Diff \/ IntoSteps

Spec == Init /\ [][Next]_vars

TypeOK ==
    pc \in {"start", "diffed", "done", "checked", "applied", "held",
            "up_start", "apply", "create", "call", "returned"}

----------------------------------------------------------------------------
(* into_steps on an arbitrary SqlSchemaDiff: every list holds up to        *)
(* MaxSteps records.                                                       *)

Copies(x) == {[i \in 1..n |-> x] : n \in 0..MaxSteps}

SampleIndex == [name |-> "i1", columns |-> <<"x">>, tpe |-> "Unique"]

SampleTable == Table("A", <<Column("x", "Int", "Required")>>, None, <<SampleIndex>>, <<>>)

SampleDiffs ==
    [add_foreign_keys : Copies([table |-> "a", foreign_key |-> ForeignKey(Some("fk"), <<"x">>, "A")]),
     drop_foreign_keys : Copies([table |-> "a", constraint_name |-> "fk0"]),
     drop_tables : Copies([name |-> "B"]),
     create_tables : Copies([table |-> SampleTable]),
     alter_tables : Copies([table |-> SampleTable,
                            changes |-> <<[change |-> "DropColumn", name |-> "y"]>>]),
     create_indexes : Copies([table |-> "A", index |-> SampleIndex]),
     drop_indexes : Copies([table |-> "a", name |-> "i0"]),
     alter_indexes : Copies([index_name |-> "i2", index_new_name |-> "i3", table |-> "a"]),
     create_enums : Copies([name |-> "E", variants |-> <<"black">>]),
     drop_enums : Copies([name |-> "f"]),
     alter_enums : Copies([created_variants |-> <<"white">>, dropped_variants |-> <<>>,
                           name |-> "e"])]

InitSteps ==
    /\ previous = EmptySchema
    /\ next = EmptySchema
    /\ sql_family = "Postgres"
    /\ diff \in SampleDiffs
    /\ steps = <<>>
    /\ pc = "diffed"
    /\ NoDatabase
    /\ NoUpCommand
    /\ NoCall

NextSteps == IntoSteps

SpecSteps == InitSteps /\ [][NextSteps]_vars

----------------------------------------------------------------------------
(* Properties.                                                             *)

KindOrder ==
    <<"CreateEnum", "AlterEnum", "DropIndex", "DropForeignKey", "CreateTable", "AlterTable",
      "CreateIndex", "AddForeignKey", "DropTable", "DropEnum", "AlterIndex">>

Rank(kind) == CHOOSE i \in 1..Len(KindOrder) : KindOrder[i] = kind

StepsOfKind(kind) ==
    LET sel == SelectSeq(steps, LAMBDA st : st.kind = kind)
    IN  [i \in 1..Len(sel) |-> sel[i].step]

DiffList(kind) ==
    CASE kind = "CreateEnum" -> diff.create_enums
      [] kind = "AlterEnum" -> diff.alter_enums
      [] kind = "DropIndex" -> diff.drop_indexes
      [] kind = "DropForeignKey" -> diff.drop_foreign_keys
      [] kind = "CreateTable" -> diff.create_tables
      [] kind = "AlterTable" -> diff.alter_tables
      [] kind = "CreateIndex" -> diff.create_indexes
      [] kind = "AddForeignKey" -> diff.add_foreign_keys
      [] kind = "DropTable" -> diff.drop_tables
      [] kind = "DropEnum" -> diff.drop_enums
      [] kind = "AlterIndex" -> diff.alter_indexes

\* C1: into_steps returns the records of the diff grouped by kind, in the
\* order CreateEnum, AlterEnum, DropIndex, DropForeignKey, CreateTable,
\* AlterTable, CreateIndex, AddForeignKey, DropTable, DropEnum, AlterIndex:
\* of two steps of different kinds, the one whose kind is earlier in this
\* list has the smaller index.
C1_StepsGroupedByKind ==
    pc = "done" =>
        /\ \A i, j \in 1..Len(steps) :
               Rank(steps[i].kind) < Rank(steps[j].kind) => i < j
        /\ \A k \in 1..Len(KindOrder) : StepsOfKind(KindOrder[k]) = DiffList(KindOrder[k])
        /\ \A i \in 1..Len(steps) : steps[i].kind \in Range(KindOrder)

C1_Witness ==
    /\ pc = "done"
    /\ \A k \in 1..Len(KindOrder) : \E i \in 1..Len(steps) : steps[i].kind = KindOrder[k]

\* C2: in the linearized output of diff(previous, next), every CreateTable
\* step of a table T precedes every AddForeignKey step whose foreign key is
\* on T or references T, and every CreateIndex step precedes every
\* AddForeignKey step.
C2_CreateTableAndIndexBeforeAddForeignKey ==
    pc = "done" =>
        \A i, j \in 1..Len(steps) :
            /\ ( /\ steps[i].kind = "CreateTable"
                 /\ steps[j].kind = "AddForeignKey"
                 /\ \/ steps[j].step.table = steps[i].step.table.name
                    \/ steps[j].step.foreign_key.referenced_table = steps[i].step.table.name )
               => i < j
            /\ (steps[i].kind = "CreateIndex" /\ steps[j].kind = "AddForeignKey") => i < j

C2_Witness ==
    /\ pc = "done"
    /\ \E i, j, k \in 1..Len(steps) :
        /\ steps[i].kind = "CreateTable"
        /\ steps[j].kind = "AddForeignKey"
        /\ steps[j].step.table # steps[i].step.table.name
        /\ steps[j].step.foreign_key.referenced_table = steps[i].step.table.name
        /\ steps[k].kind = "CreateIndex"

\* C3: in the linearized output of diff(previous, next), every
\* DropForeignKey step precedes every DropTable step.
C3_DropForeignKeyBeforeDropTable ==
    pc = "done" =>
        \A i, j \in 1..Len(steps) :
            (steps[i].kind = "DropForeignKey" /\ steps[j].kind = "DropTable") => i < j

\* A kept table loses its foreign key to a table that is dropped.
C3_Witness ==
    /\ pc = "done"
    /\ \E i, j \in 1..Len(steps) :
        /\ steps[i].kind = "DropForeignKey"
        /\ steps[j].kind = "DropTable"
        /\ steps[i].step.table # steps[j].step.name
        /\ \E t \in Range(previous.tables) :
            /\ t.name = steps[i].step.table
            /\ \E fk \in Range(t.foreign_keys) : fk.referenced_table = steps[j].step.name

----------------------------------------------------------------------------
(* The tables, enums and foreign keys the two snapshots hold.              *)

Ignored(name) == table_is_ignored(Differ, name)

PreviousNames == {t.name : t \in Range(previous.tables)}

NextNames == {t.name : t \in Range(next.tables)}

\* Tables of previous that are not ignored and have no table of that name in next.
GoneTables == {t \in Range(previous.tables) : ~Ignored(t.name) /\ t.name \notin NextNames}

\* Tables of next that are not ignored and have no table of that name in previous.
NewTables == {t \in Range(next.tables) : ~Ignored(t.name) /\ t.name \notin PreviousNames}

\* Pairs of tables of the same name that are not ignored.
SameNameTables ==
    {pr \in Range(previous.tables) \X Range(next.tables) :
        pr[1].name = pr[2].name /\ ~Ignored(pr[1].name)}

\* The foreign keys of previous.tables[..] named name that the diff has to remove.
RemovedForeignKeys(t) ==
    IF t \in GoneTables THEN t.foreign_keys
    ELSE IF \E pr \in SameNameTables : pr[1] = t
    THEN LET n == CHOOSE n \in Range(next.tables) : n.name = t.name IN
         SelectSeq(t.foreign_keys,
             LAMBDA fk : ~\E nfk \in Range(n.foreign_keys) : foreign_keys_match(t, fk, n, nfk))
    ELSE <<>>

DropForeignKeysOf(table_name) ==
    SelectSeq(diff.drop_foreign_keys, LAMBDA r : r.table = table_name)

\* Every table name a record of the diff is about.
DiffTableNames ==
    {r.table.name : r \in Range(diff.create_tables)}
    \cup {r.name : r \in Range(diff.drop_tables)}
    \cup {r.table.name : r \in Range(diff.alter_tables)}
    \cup {r.table : r \in Range(diff.create_indexes)}
    \cup {r.table : r \in Range(diff.drop_indexes)}
    \cup {r.table : r \in Range(diff.alter_indexes)}
    \cup {r.table : r \in Range(diff.add_foreign_keys)}
    \cup {r.table : r \in Range(diff.drop_foreign_keys)}

\* C4 (as stated): every removed foreign key, of a dropped table or of a
\* matched table pair, has a DropForeignKey in drop_foreign_keys naming its
\* table and its constraint.
C4_EveryRemovedForeignKeyIsDropped ==
    pc # "start" =>
        \A t \in Range(previous.tables) :
            \A fk \in Range(RemovedForeignKeys(t)) :
                \E r \in Range(diff.drop_foreign_keys) :
                    r.table = t.name /\ Some(r.constraint_name) = fk.constraint_name

\* C4 (amended): every removed foreign key that has a constraint name has
\* one DropForeignKey naming its table and its constraint; a removed foreign
\* key without a constraint name has none.
C4_NamedRemovedForeignKeysAreDropped ==
    pc # "start" =>
        \A t \in Range(previous.tables) :
            ~Ignored(t.name) =>
                /\ \A fk \in Range(RemovedForeignKeys(t)) :
                       fk.constraint_name # None =>
                           \E r \in Range(diff.drop_foreign_keys) :
                               r.table = t.name /\ Some(r.constraint_name) = fk.constraint_name
                /\ Len(DropForeignKeysOf(t.name))
                       = Len(SelectSeq(RemovedForeignKeys(t), LAMBDA fk : fk.constraint_name # None))

\* A dropped table and a kept table each lose a named foreign key, or a
\* dropped table has a foreign key without a name.
C4_Witness ==
    /\ pc # "start"
    /\ \E t \in GoneTables : \E fk \in Range(t.foreign_keys) : fk.constraint_name # None
    /\ \E pr \in SameNameTables :
           \E fk \in Range(RemovedForeignKeys(pr[1])) : fk.constraint_name # None

\* C5: a table that is ignored (the migration table or, on Postgres, a
\* system table) appears in no record of the diff.
C5_IgnoredTablesNeverAppear ==
    pc # "start" => \A name \in DiffTableNames : ~Ignored(name)

\* C6: the diff of a snapshot against itself is empty, and so are its steps.
C6_SelfDiffIsEmpty ==
    (pc # "start" /\ previous = next) =>
        /\ diff = EmptyDiff
        /\ pc = "done" => steps = <<>>

C6_Witness ==
    /\ pc = "done"
    /\ previous = next
    /\ \E t \in Range(previous.tables) :
        /\ t.primary_key # None
        /\ Len(t.columns) = MaxColumns

\* A snapshot with two indexes on the same columns and a foreign key.
C6_WitnessIndexes ==
    /\ pc = "done"
    /\ previous = next
    /\ \E t \in Range(previous.tables) :
        /\ t.foreign_keys # <<>>
        /\ \E i, j \in 1..Len(t.indices) : i # j /\ indexes_match(t.indices[i], t.indices[j])

Names(list) == {list[i].name : i \in 1..Len(list)}

NoRepeatedName(names) == \A i, j \in 1..Len(names) : names[i] = names[j] => i = j

CreatedTableNames == [i \in 1..Len(diff.create_tables) |-> diff.create_tables[i].table.name]

DroppedTableNames == [i \in 1..Len(diff.drop_tables) |-> diff.drop_tables[i].name]

AlteredTableNames == [i \in 1..Len(diff.alter_tables) |-> diff.alter_tables[i].table.name]

CreatedEnumNames == [i \in 1..Len(diff.create_enums) |-> diff.create_enums[i].name]

DroppedEnumNames == [i \in 1..Len(diff.drop_enums) |-> diff.drop_enums[i].name]

AlteredEnumNames == [i \in 1..Len(diff.alter_enums) |-> diff.alter_enums[i].name]

\* C7: tables and enums are matched by exact, case-sensitive name; a table
\* that is not ignored (an enum) is created iff its name is in next only,
\* dropped iff its name is in previous only, altered only if its name is in
\* both, and no name is in two of the three lists.
C7_CreateDropAlterByExactName ==
    pc # "start" =>
        /\ \A n \in PreviousNames \cup NextNames \cup DiffTableNames :
               ~Ignored(n) =>
                   /\ n \in Range(CreatedTableNames) <=> (n \in NextNames /\ n \notin PreviousNames)
                   /\ n \in Range(DroppedTableNames) <=> (n \in PreviousNames /\ n \notin NextNames)
        /\ \A n \in Range(AlteredTableNames) : n \in PreviousNames /\ n \in NextNames
        /\ Range(CreatedTableNames) \cap Range(DroppedTableNames) = {}
        /\ Range(CreatedTableNames) \cap Range(AlteredTableNames) = {}
        /\ Range(DroppedTableNames) \cap Range(AlteredTableNames) = {}
        /\ NoRepeatedName(CreatedTableNames)
        /\ NoRepeatedName(DroppedTableNames)
        /\ NoRepeatedName(AlteredTableNames)
        /\ \A n \in Names(previous.enums) \cup Names(next.enums)
                    \cup Range(CreatedEnumNames) \cup Range(DroppedEnumNames) :
               /\ n \in Range(CreatedEnumNames)
                      <=> (n \in Names(next.enums) /\ n \notin Names(previous.enums))
               /\ n \in Range(DroppedEnumNames)
                      <=> (n \in Names(previous.enums) /\ n \notin Names(next.enums))
        /\ \A n \in Range(AlteredEnumNames) : n \in Names(previous.enums) /\ n \in Names(next.enums)
        /\ Range(CreatedEnumNames) \cap Range(DroppedEnumNames) = {}
        /\ Range(CreatedEnumNames) \cap Range(AlteredEnumNames) = {}
        /\ Range(DroppedEnumNames) \cap Range(AlteredEnumNames) = {}
        /\ NoRepeatedName(CreatedEnumNames)
        /\ NoRepeatedName(DroppedEnumNames)
        /\ NoRepeatedName(AlteredEnumNames)

\* Names that differ only in case: "A" is dropped and "a" created while a
\* third table is altered.
C7_Witness ==
    /\ pc # "start"
    /\ \E n \in PreviousNames : \E m \in NextNames :
        /\ n # m
        /\ to_lowercase(n) = to_lowercase(m)
        /\ n \notin NextNames
        /\ m \notin PreviousNames
        /\ n \in Range(DroppedTableNames)
        /\ m \in Range(CreatedTableNames)

C7_WitnessEnums ==
    /\ pc # "start"
    /\ \E n \in Names(previous.enums) : \E m \in Names(next.enums) :
        /\ n # m
        /\ to_lowercase(n) = to_lowercase(m)
        /\ n \in Range(DroppedEnumNames)
        /\ m \in Range(CreatedEnumNames)

ChangeOrder == <<"DropPrimaryKey", "DropColumn", "AddColumn", "AlterColumn", "AddPrimaryKey">>

ChangeRank(change) == CHOOSE i \in 1..Len(ChangeOrder) : ChangeOrder[i] = change

\* C8: the changes of every AlterTable are ordered DropPrimaryKey (at most
\* one), DropColumn, AddColumn, AlterColumn, AddPrimaryKey (at most one),
\* and the list is never empty.
C8_AlterTableChangesOrdered ==
    pc # "start" =>
        \A a \in Range(diff.alter_tables) :
            /\ a.changes # <<>>
            /\ \A i \in 1..Len(a.changes) : a.changes[i].change \in Range(ChangeOrder)
            /\ \A i, j \in 1..Len(a.changes) :
                   i < j => ChangeRank(a.changes[i].change) <= ChangeRank(a.changes[j].change)
            /\ \A i, j \in 1..Len(a.changes) :
                   ( /\ a.changes[i].change = a.changes[j].change
                     /\ a.changes[i].change \in {"DropPrimaryKey", "AddPrimaryKey"} ) => i = j

C8_Witness ==
    /\ pc # "start"
    /\ \E a \in Range(diff.alter_tables) :
        \A k \in 1..Len(ChangeOrder) :
            \E i \in 1..Len(a.changes) : a.changes[i].change = ChangeOrder[k]

\* C9 (as stated): no CreateIndex record is on a newly created table.
C9_NoCreateIndexOnNewTable ==
    pc # "start" =>
        \A r \in Range(diff.create_indexes) : \A t \in NewTables : r.table # t.name

\* C9 (amended): a newly created table is in create_tables with its full
\* definition, and each of its indexes has exactly one CreateIndex record
\* naming the table.
C9_NewTableIndexesAreCreated ==
    pc # "start" =>
        \A t \in NewTables :
            /\ \E c \in Range(diff.create_tables) : c.table = t
            /\ \A idx \in Range(t.indices) :
                   Len(SelectSeq(diff.create_indexes,
                                 LAMBDA r : r.table = t.name /\ r.index = idx)) = 1
            /\ Len(SelectSeq(diff.create_indexes, LAMBDA r : r.table = t.name)) = Len(t.indices)

C9_Witness ==
    /\ pc # "start"
    /\ \E t \in NewTables : t.indices # <<>>

\* Pairs of enums of the same name.
SameNameEnums ==
    {pr \in Range(previous.enums) \X Range(next.enums) : pr[1].name = pr[2].name}

NoRepeats(list) == \A i, j \in 1..Len(list) : list[i] = list[j] => i = j

\* C10: for an enum in both snapshots an AlterEnum is emitted iff the variant
\* sets differ; it carries exactly the variants added and exactly the
\* variants removed; an enum whose variant set is unchanged, in whatever
\* order, has no CreateEnum, DropEnum or AlterEnum; no AlterEnum has both
\* lists empty.
C10_AlterEnumIffVariantSetsDiffer ==
    pc # "start" =>
        /\ \A pr \in SameNameEnums :
            /\ pr[1].name \in Range(AlteredEnumNames)
                   <=> Range(pr[1].values) # Range(pr[2].values)
            /\ \A r \in Range(diff.alter_enums) :
                   r.name = pr[1].name =>
                       /\ Range(r.created_variants) = Range(pr[2].values) \ Range(pr[1].values)
                       /\ Range(r.dropped_variants) = Range(pr[1].values) \ Range(pr[2].values)
                       /\ NoRepeats(r.created_variants)
                       /\ NoRepeats(r.dropped_variants)
            /\ Range(pr[1].values) = Range(pr[2].values) =>
                   pr[1].name \notin Range(CreatedEnumNames) \cup Range(DroppedEnumNames)
                                     \cup Range(AlteredEnumNames)
        /\ \A r \in Range(diff.alter_enums) :
               ~(r.created_variants = <<>> /\ r.dropped_variants = <<>>)
        /\ NoRepeatedName(AlteredEnumNames)

\* One enum keeps its variants in another order while another one changes.
C10_Witness ==
    /\ pc # "start"
    /\ \E pr \in SameNameEnums :
        /\ pr[1].values # pr[2].values
        /\ Range(pr[1].values) = Range(pr[2].values)
    /\ \E pr \in SameNameEnums :
        /\ Range(pr[2].values) \ Range(pr[1].values) # {}
        /\ Range(pr[1].values) \ Range(pr[2].values) # {}

----------------------------------------------------------------------------
(* Index renames.                                                          *)

\* The index is the only one of the list with its columns and type.
OnlyOfItsShape(index, indices) ==
    Cardinality({other \in Range(indices) : indexes_match(other, index)}) = 1

\* C11: when a table present in both snapshots has exactly one previous and
\* exactly one next index with the same columns and type and the two differ
\* in name, the diff holds exactly one AlterIndex with the old name, the new
\* name and the table, no DropIndex for the previous index and no
\* CreateIndex for the next index.
C11_RenamedIndexIsAltered ==
    pc # "start" =>
        \A pt \in Range(previous.tables), nt \in Range(next.tables) :
            pt.name = nt.name =>
                \A p \in Range(pt.indices), n \in Range(nt.indices) :
                    (/\ p.columns = n.columns
                     /\ p.tpe = n.tpe
                     /\ p.name # n.name
                     /\ OnlyOfItsShape(p, pt.indices)
                     /\ OnlyOfItsShape(n, nt.indices))
                    => /\ Len(SelectSeq(diff.alter_indexes,
                              LAMBDA s : s = [index_name |-> p.name,
                                              index_new_name |-> n.name,
                                              table |-> nt.name])) = 1
                       /\ ~\E s \in Range(diff.drop_indexes) :
                              s.table = pt.name /\ s.name = p.name
                       /\ ~\E s \in Range(diff.create_indexes) :
                              s.table = nt.name /\ s.index = n

\* An index is renamed next to an index that is dropped and one that is
\* created, and the rename is the only AlterIndex.
C11_Witness ==
    /\ pc = "diffed"
    /\ Len(previous.tables) = 1 /\ Len(next.tables) = 1
    /\ Len(previous.tables[1].indices) = 2 /\ Len(next.tables[1].indices) = 2
    /\ Len(diff.alter_indexes) = 1
    /\ Len(diff.drop_indexes) = 1
    /\ Len(diff.create_indexes) = 1
    /\ diff.alter_indexes[1].index_name = previous.tables[1].indices[1].name
    /\ diff.alter_indexes[1].index_new_name = next.tables[1].indices[2].name

----------------------------------------------------------------------------
(* Foreign keys of a table present in both snapshots.                      *)

\* The tables of the same name, one of each snapshot.
MatchedTables ==
    {pr \in Range(previous.tables) \X Range(next.tables) : pr[1].name = pr[2].name}

HasColumns(table, names) ==
    \A i \in 1..Len(names) : \E c \in Range(table.columns) : c.name = names[i]

FamilyOf(table, name) == (CHOOSE c \in Range(table.columns) : c.name = name).tpe.family

\* The comparison of two foreign keys, position by position.
SameForeignKey(ptable, pfk, ntable, nfk) ==
    /\ pfk.referenced_table = nfk.referenced_table
    /\ Len(pfk.referenced_columns) = Len(nfk.referenced_columns)
    /\ Len(pfk.columns) = Len(nfk.columns)
    /\ \A i \in 1..Len(pfk.columns) :
           /\ pfk.columns[i] = nfk.columns[i]
           /\ FamilyOf(ptable, pfk.columns[i]) = FamilyOf(ntable, nfk.columns[i])

\* Two foreign keys on columns of their tables match iff they compare equal
\* position by position.
MatchIsPositionwise ==
    \A pr \in MatchedTables :
        \A pfk \in Range(pr[1].foreign_keys), nfk \in Range(pr[2].foreign_keys) :
            (HasColumns(pr[1], pfk.columns) /\ HasColumns(pr[2], nfk.columns))
            => (foreign_keys_match(pr[1], pfk, pr[2], nfk)
                    <=> SameForeignKey(pr[1], pfk, pr[2], nfk))

\* The table pairs whose only foreign keys are one previous and one next
\* foreign key that differ.
ChangedForeignKeys ==
    {pr \in MatchedTables :
        /\ Len(pr[1].foreign_keys) = 1 /\ Len(pr[2].foreign_keys) = 1
        /\ HasColumns(pr[1], pr[1].foreign_keys[1].columns)
        /\ HasColumns(pr[2], pr[2].foreign_keys[1].columns)
        /\ ~SameForeignKey(pr[1], pr[1].foreign_keys[1], pr[2], pr[2].foreign_keys[1])}

AddsForeignKey(table_name, fk) ==
    Len(SelectSeq(diff.add_foreign_keys,
            LAMBDA s : s.table = table_name /\ s.foreign_key = fk)) = 1

\* No AlterTable for a table whose columns and primary key are the same in
\* both snapshots.
NoAlterFor(pr) ==
    (pr[1].columns = pr[2].columns /\ pr[1].primary_key = pr[2].primary_key)
    => ~\E s \in Range(diff.alter_tables) : s.table.name = pr[2].name

\* C12 as stated: foreign keys match iff they compare equal position by
\* position, and a changed foreign key yields a DropForeignKey of the
\* previous one and an AddForeignKey of the next one, and no AlterTable.
C12_ChangedForeignKeyIsDroppedAndAdded ==
    pc # "start" =>
        /\ MatchIsPositionwise
        /\ \A pr \in ChangedForeignKeys :
               /\ \E s \in Range(diff.drop_foreign_keys) :
                      /\ s.table = pr[1].name
                      /\ Some(s.constraint_name) = pr[1].foreign_keys[1].constraint_name
               /\ AddsForeignKey(pr[2].name, pr[2].foreign_keys[1])
               /\ NoAlterFor(pr)

\* C12: foreign keys match iff they compare equal position by position; a
\* changed foreign key yields one AddForeignKey of the next one and, when
\* the previous one has a constraint name, one DropForeignKey with that
\* name, when it has none, no DropForeignKey for the table; and no
\* AlterTable.
C12_ChangedForeignKeyIsAddedAndDroppedByName ==
    pc # "start" =>
        /\ MatchIsPositionwise
        /\ \A pr \in ChangedForeignKeys :
               LET drops == SelectSeq(diff.drop_foreign_keys, LAMBDA s : s.table = pr[1].name)
                   pfk == pr[1].foreign_keys[1]
               IN  /\ IF pfk.constraint_name = None THEN drops = <<>>
                      ELSE drops = <<[table |-> pr[1].name,
                                      constraint_name |-> pfk.constraint_name[1]]>>
                   /\ AddsForeignKey(pr[2].name, pr[2].foreign_keys[1])
                   /\ NoAlterFor(pr)

\* A named foreign key on (x, y) becomes one on (y, x): dropped and added.
C12_Witness ==
    /\ pc = "diffed"
    /\ \E pr \in ChangedForeignKeys :
           /\ pr[1].foreign_keys[1].columns = <<"x", "y">>
           /\ pr[2].foreign_keys[1].columns = <<"y", "x">>
           /\ pr[1].foreign_keys[1].constraint_name = Some("fk")
           /\ pr[1].columns = pr[2].columns
           /\ Len(diff.drop_foreign_keys) = 1
           /\ Len(diff.add_foreign_keys) = 1
           /\ diff.alter_tables = <<>>

----------------------------------------------------------------------------
(* Dropped indexes and foreign keys.                                       *)

\* The previous indexes of a table pair with no next index of the same
\* columns and type.
GoneIndexes(pr) ==
    {p \in Range(pr[1].indices) : ~\E n \in Range(pr[2].indices) : indexes_match(p, n)}

DropsIndex(pr, index) ==
    \E s \in Range(diff.drop_indexes) : s.table = pr[1].name /\ s.name = index.name

\* The previous foreign keys of a table pair on exactly the index's columns.
CoveringForeignKeys(pr, index) ==
    {fk \in Range(pr[1].foreign_keys) : fk.columns = index.columns}

\* The foreign key has no matching foreign key in the next table.
ForeignKeyGone(pr, fk) ==
    ~\E nfk \in Range(pr[2].foreign_keys) : foreign_keys_match(pr[1], fk, pr[2], nfk)

\* C13 as stated: on MySQL a dropped index has no DropIndex exactly when a
\* foreign key on its columns is dropped in the same diff; on the other
\* families every dropped index has a DropIndex.
C13_IndexDropOmittedWithDroppedForeignKey ==
    pc # "start" =>
        \A pr \in MatchedTables : \A index \in GoneIndexes(pr) :
            IF is_mysql(sql_family)
            THEN ~DropsIndex(pr, index)
                     <=> \E fk \in CoveringForeignKeys(pr, index) : ForeignKeyGone(pr, fk)
            ELSE DropsIndex(pr, index)

\* C13: on MySQL a dropped index has no DropIndex exactly when the previous
\* table has a foreign key on its columns, dropped or kept; on the other
\* families every dropped index has a DropIndex.
C13_IndexDropOmittedWithPreviousForeignKey ==
    pc # "start" =>
        \A pr \in MatchedTables : \A index \in GoneIndexes(pr) :
            IF is_mysql(sql_family)
            THEN ~DropsIndex(pr, index) <=> CoveringForeignKeys(pr, index) # {}
            ELSE DropsIndex(pr, index)

\* On MySQL the index on x goes, the foreign key on x stays, and another
\* index is dropped by a DropIndex.
C13_Witness ==
    /\ pc = "diffed"
    /\ is_mysql(sql_family)
    /\ \E pr \in MatchedTables :
           /\ \E index \in GoneIndexes(pr) :
                  /\ ~DropsIndex(pr, index)
                  /\ \E fk \in CoveringForeignKeys(pr, index) : ~ForeignKeyGone(pr, fk)
           /\ \E index \in GoneIndexes(pr) : DropsIndex(pr, index)

\* The same dropped indexes on another family: each has its DropIndex.
C13_WitnessOtherFamily ==
    /\ pc = "diffed"
    /\ ~is_mysql(sql_family)
    /\ \E pr \in MatchedTables :
           \E index \in GoneIndexes(pr) :
               DropsIndex(pr, index) /\ CoveringForeignKeys(pr, index) # {}

----------------------------------------------------------------------------
(* The destructive changes checker on Postgres                             *)
(* (sql_destructive_changes_checker).                                      *)

\* DefaultValue
VALUE(value) == [kind |-> "VALUE", arg |-> value]
DBGENERATED(expr) == [kind |-> "DBGENERATED", arg |-> expr]
NOW == [kind |-> "NOW", arg |-> ""]
SEQUENCE(name) == [kind |-> "SEQUENCE", arg |-> name]

\* default_can_be_rendered with a sequence default taken as renderable.
default_can_be_rendered_with_sequence(default) ==
    IF default = None THEN FALSE
    ELSE CASE default[1].kind = "VALUE" -> TRUE
           [] default[1].kind = "DBGENERATED" -> default[1].arg # ""
           [] default[1].kind = "NOW" -> TRUE
           [] default[1].kind = "SEQUENCE" -> TRUE

default_can_be_rendered(default) ==
    IF default = None THEN FALSE
    ELSE CASE default[1].kind = "VALUE" -> TRUE
           [] default[1].kind = "DBGENERATED" -> ~(default[1].arg = "")
           [] default[1].kind = "NOW" -> TRUE
           [] default[1].kind = "SEQUENCE" -> FALSE

\* ColumnDiffer::all_changes: which of arity, default, type family and
\* sequence differ between the two columns.
all_changes(columns) ==
    [arity    |-> columns.previous.tpe.arity # columns.next.tpe.arity,
     default  |-> columns.previous.default # columns.next.default,
     type     |-> columns.previous.tpe.family # columns.next.tpe.family,
     sequence |-> columns.previous.auto_increment # columns.next.auto_increment]

arity_changed(changes) == changes.arity

\* PostgresAlterColumn
SetNotNull == [step |-> "SetNotNull"]
DropNotNull == [step |-> "DropNotNull"]
SetType(tpe) == [step |-> "SetType", tpe |-> tpe]
SetDefault(default) == [step |-> "SetDefault", default |-> default]
DropDefault == [step |-> "DropDefault"]
AddSequence == [step |-> "AddSequence"]

\* expand_postgres_alter_column: the in-place ALTER COLUMN clauses of the
\* change, or None when the column has to be dropped and recreated (a type
\* change other than Int to String, or the loss of a sequence).
expand_postgres_alter_column(columns) ==
    LET changes == all_changes(columns)
        parity == columns.previous.tpe.arity
        narity == columns.next.tpe.arity
        castable == columns.previous.tpe.family = "Int" /\ columns.next.tpe.family = "String"
        for_arity ==
            IF ~changes.arity THEN <<>>
            ELSE CASE parity = "Required" /\ narity = "Nullable" -> <<DropNotNull>>
                   [] parity = "Nullable" /\ narity = "Required" -> <<SetNotNull>>
                   [] parity = "List" /\ narity = "Nullable" ->
                          <<SetType(columns.next.tpe), DropNotNull>>
                   [] parity = "List" /\ narity = "Required" ->
                          <<SetType(columns.next.tpe), SetNotNull>>
                   [] narity = "List" -> <<SetType(columns.next.tpe)>>
        for_default ==
            IF ~changes.default THEN <<>>
            ELSE IF columns.next.default = None THEN <<DropDefault>>
            ELSE <<SetDefault(columns.next.default[1])>>
        for_type == IF changes.type THEN <<SetType(columns.next.tpe)>> ELSE <<>>
        for_sequence == IF changes.sequence THEN <<AddSequence>> ELSE <<>>
    IN  IF \/ changes.type /\ ~castable
           \/ changes.sequence /\ columns.previous.auto_increment
        THEN None
        ELSE Some(for_arity \o for_default \o for_type \o for_sequence)

\* DestructiveCheckPlan
EmptyPlan == [warnings |-> <<>>, unexecutable_migrations |-> <<>>]

push_warning(check_plan, check) ==
    [check_plan EXCEPT !.warnings = Append(@, check)]

push_unexecutable(check_plan, check) ==
    [check_plan EXCEPT !.unexecutable_migrations = Append(@, check)]

\* check_step without the check of SET NOT NULL.
check_step_without_set_not_null(step, previous_table, columns, check_plan) ==
    CASE step.step = "SetType" ->
             IF ~(columns.previous.tpe.arity = "List") /\ columns.next.tpe.arity = "List"
             THEN push_unexecutable(check_plan,
                      [check |-> "MadeScalarFieldIntoArrayField",
                       table |-> previous_table.name, column |-> columns.previous.name])
             ELSE push_warning(check_plan,
                      [check |-> "AlterColumn",
                       table |-> previous_table.name, column |-> columns.previous.name])
      [] step.step \in {"SetNotNull", "SetDefault", "AddSequence", "DropDefault", "DropNotNull"} ->
             check_plan

\* check_step with a warning for DROP NOT NULL.
check_step_warns_on_drop_not_null(step, previous_table, columns, check_plan) ==
    CASE step.step = "SetNotNull" ->
             push_unexecutable(check_plan,
                 [check |-> "MadeOptionalFieldRequired",
                  column |-> columns.previous.name, table |-> previous_table.name])
      [] step.step = "SetType" ->
             IF ~(columns.previous.tpe.arity = "List") /\ columns.next.tpe.arity = "List"
             THEN push_unexecutable(check_plan,
                      [check |-> "MadeScalarFieldIntoArrayField",
                       table |-> previous_table.name, column |-> columns.previous.name])
             ELSE push_warning(check_plan,
                      [check |-> "AlterColumn",
                       table |-> previous_table.name, column |-> columns.previous.name])
      [] step.step = "DropNotNull" ->
             push_warning(check_plan,
                 [check |-> "AlterColumn",
                  table |-> previous_table.name, column |-> columns.previous.name])
      [] step.step \in {"SetDefault", "AddSequence", "DropDefault"} ->
             check_plan

\* check_step without the check of a type change.
check_step_type_change_unchecked(step, previous_table, columns, check_plan) ==
    CASE step.step = "SetNotNull" ->
             push_unexecutable(check_plan,
                 [check |-> "MadeOptionalFieldRequired",
                  column |-> columns.previous.name, table |-> previous_table.name])
      [] step.step \in {"SetType", "SetDefault", "AddSequence", "DropDefault", "DropNotNull"} ->
             check_plan

\* check_step with a warning for every type change, to a list or not.
check_step_set_type_always_warns(step, previous_table, columns, check_plan) ==
    CASE step.step = "SetNotNull" ->
             push_unexecutable(check_plan,
                 [check |-> "MadeOptionalFieldRequired",
                  column |-> columns.previous.name, table |-> previous_table.name])
      [] step.step = "SetType" ->
             push_warning(check_plan,
                 [check |-> "AlterColumn",
                  table |-> previous_table.name, column |-> columns.previous.name])
      [] step.step \in {"SetDefault", "AddSequence", "DropDefault", "DropNotNull"} ->
             check_plan

\* One iteration of the loop of check_alter_column over the expanded steps.
check_step(step, previous_table, columns, check_plan) ==
    CASE step.step = "SetNotNull" ->
             push_unexecutable(check_plan,
                 [check |-> "MadeOptionalFieldRequired",
                  column |-> columns.previous.name, table |-> previous_table.name])
      [] step.step = "SetType" ->
             IF ~(columns.previous.tpe.arity = "List") /\ columns.next.tpe.arity = "List"
             THEN push_unexecutable(check_plan,
                      [check |-> "MadeScalarFieldIntoArrayField",
                       table |-> previous_table.name, column |-> columns.previous.name])
             ELSE push_warning(check_plan,
                      [check |-> "AlterColumn",
                       table |-> previous_table.name, column |-> columns.previous.name])
      [] step.step \in {"SetDefault", "AddSequence", "DropDefault", "DropNotNull"} ->
             check_plan

RECURSIVE check_steps(_, _, _, _)
check_steps(expanded, previous_table, columns, check_plan) ==
    IF expanded = <<>> THEN check_plan
    ELSE check_steps(Tail(expanded), previous_table, columns,
                     check_step(Head(expanded), previous_table, columns, check_plan))

\* check_alter_column that does not look at the next default.
check_alter_column_ignoring_default(previous_table, columns, check_plan) ==
    LET expanded == expand_postgres_alter_column(columns) IN
    IF expanded # None
    THEN check_steps(expanded[1], previous_table, columns, check_plan)
    ELSE IF /\ arity_changed(all_changes(columns))
            /\ columns.previous.tpe.arity = "Nullable"
            /\ columns.next.tpe.arity = "Required"
         THEN push_unexecutable(check_plan,
                  [check |-> "AddedRequiredFieldToTable",
                   column |-> columns.previous.name, table |-> previous_table.name])
         ELSE push_warning(check_plan,
                  [check |-> "AlterColumn",
                   table |-> previous_table.name, column |-> columns.next.name])

\* PostgresFlavour::check_alter_column
check_alter_column(previous_table, columns, check_plan) ==
    LET expanded == expand_postgres_alter_column(columns) IN
    IF expanded # None
    THEN check_steps(expanded[1], previous_table, columns, check_plan)
    ELSE IF /\ arity_changed(all_changes(columns))
            /\ columns.previous.tpe.arity = "Nullable"
            /\ columns.next.tpe.arity = "Required"
            /\ ~default_can_be_rendered(columns.next.default)
         THEN push_unexecutable(check_plan,
                  [check |-> "AddedRequiredFieldToTable",
                   column |-> columns.previous.name, table |-> previous_table.name])
         ELSE push_warning(check_plan,
                  [check |-> "AlterColumn",
                   table |-> previous_table.name, column |-> columns.next.name])

(* SqlDestructiveChangesChecker: the checks of the other changes.           *)

\* check_table_drop that plans no check.
check_table_drop_unchecked(table_name, check_plan) == check_plan

check_table_drop(table_name, check_plan) ==
    push_warning(check_plan, [check |-> "NonEmptyTableDrop", table |-> table_name])

check_column_drop(column_name, table, check_plan) ==
    push_warning(check_plan,
        [check |-> "NonEmptyColumnDrop", table |-> table.name, column |-> column_name])

\* A required column without a default cannot be added to a table with rows.
check_add_column(column, table, check_plan) ==
    IF column.tpe.arity = "Required" /\ column.default = None
    THEN push_unexecutable(check_plan,
             [check |-> "AddedRequiredFieldToTable",
              column |-> column.name, table |-> table.name])
    ELSE check_plan

check_change(change, previous_table, check_plan) ==
    CASE change.change = "DropColumn" ->
             check_column_drop(change.name, previous_table, check_plan)
      [] change.change = "AddColumn" ->
             check_add_column(change.column, previous_table, check_plan)
      [] change.change = "AlterColumn" ->
             LET found == FindFirst(previous_table.columns, LAMBDA c : c.name = change.name)
             IN  IF found = None THEN check_plan
                 ELSE check_alter_column(previous_table,
                          [previous |-> found[1], next |-> change.column], check_plan)
      [] OTHER -> check_plan

RECURSIVE check_changes(_, _, _)
check_changes(changes, previous_table, check_plan) ==
    IF changes = <<>> THEN check_plan
    ELSE check_changes(Tail(changes), previous_table,
                       check_change(Head(changes), previous_table, check_plan))

\* The checks of one migration step; before is the schema of the database.
check_migration_step(step, before, check_plan) ==
    CASE step.kind = "AlterTable" ->
             LET found == FindFirst(before.tables, LAMBDA t : t.name = step.step.table.name)
             IN  IF found = None THEN check_plan
                 ELSE check_changes(step.step.changes, found[1], check_plan)
      [] step.kind = "DropTable" -> check_table_drop(step.step.name, check_plan)
      [] OTHER -> check_plan

RECURSIVE check_migration_steps(_, _, _)
check_migration_steps(migration_steps, before, check_plan) ==
    IF migration_steps = <<>> THEN check_plan
    ELSE check_migration_steps(Tail(migration_steps), before,
                               check_migration_step(Head(migration_steps), before, check_plan))

\* The rows of the database: a function from the tables' names to their
\* rows, a row a function from the columns' names to values; "NULL" is the
\* null value.
rows_of(db, table) == IF table \in DOMAIN db.rows THEN db.rows[table] ELSE <<>>

row_count(db, table) == Len(rows_of(db, table))

non_null_count(db, table, column) ==
    Cardinality({i \in 1..Len(rows_of(db, table)) :
        /\ column \in DOMAIN rows_of(db, table)[i]
        /\ rows_of(db, table)[i][column] # "NULL"})

\* SqlMigrationWarningCheck::evaluate: the warning, if the rows call for one.
evaluate_warning(check, db) ==
    CASE check.check = "NonEmptyTableDrop" ->
             IF row_count(db, check.table) = 0 THEN None
             ELSE Some([warning |-> "NonEmptyTableDrop", table |-> check.table,
                        count |-> row_count(db, check.table)])
      [] check.check \in {"NonEmptyColumnDrop", "AlterColumn"} ->
             IF non_null_count(db, check.table, check.column) = 0 THEN None
             ELSE Some([warning |-> check.check, table |-> check.table,
                        column |-> check.column,
                        count |-> non_null_count(db, check.table, check.column)])

\* UnexecutableStepCheck::evaluate
evaluate_unexecutable(check, db) ==
    CASE check.check = "AddedRequiredFieldToTable" ->
             IF row_count(db, check.table) = 0 THEN None
             ELSE Some([unexecutable |-> check.check, table |-> check.table,
                        column |-> check.column,
                        count |-> row_count(db, check.table)])
      [] check.check = "MadeOptionalFieldRequired" ->
             LET nulls == row_count(db, check.table)
                              - non_null_count(db, check.table, check.column)
             IN  IF nulls = 0 THEN None
                 ELSE Some([unexecutable |-> check.check, table |-> check.table,
                            column |-> check.column, count |-> nulls])
      [] check.check = "MadeScalarFieldIntoArrayField" ->
             IF non_null_count(db, check.table, check.column) = 0 THEN None
             ELSE Some([unexecutable |-> check.check, table |-> check.table,
                        column |-> check.column,
                        count |-> non_null_count(db, check.table, check.column)])

\* DestructiveCheckPlan::execute: the diagnostics of the plan on the rows.
\* The unexecutable migrations are reported among the warnings as well.
execute(check_plan, db) ==
    LET unexecutable == Flatten([i \in 1..Len(check_plan.unexecutable_migrations) |->
                            evaluate_unexecutable(check_plan.unexecutable_migrations[i], db)])
        warned == Flatten([i \in 1..Len(check_plan.warnings) |->
                      evaluate_warning(check_plan.warnings[i], db)])
    IN  [warnings |-> warned \o unexecutable, unexecutable_migrations |-> unexecutable]

\* The value an existing row gets in a column that is added or recreated.
backfill(column) ==
    IF column.default # None /\ column.default[1].kind = "VALUE"
    THEN column.default[1].arg
    ELSE "NULL"

without_column(row, name) == [c \in DOMAIN row \ {name} |-> row[c]]

with_column(row, name, value) ==
    [c \in DOMAIN row \cup {name} |-> IF c = name THEN value ELSE row[c]]

\* One change of an AlterTable on one row: a dropped column takes its value
\* with it, an added or recreated column starts from the backfill value, a
\* column altered in place keeps its value.
apply_change(change, previous_table, row) ==
    CASE change.change = "DropColumn" -> without_column(row, change.name)
      [] change.change = "AddColumn" ->
             with_column(row, change.column.name, backfill(change.column))
      [] change.change = "AlterColumn" ->
             LET found == FindFirst(previous_table.columns, LAMBDA c : c.name = change.name)
             IN  IF /\ found # None
                    /\ expand_postgres_alter_column(
                           [previous |-> found[1], next |-> change.column]) = None
                 THEN with_column(row, change.name, backfill(change.column))
                 ELSE row
      [] OTHER -> row

RECURSIVE apply_changes(_, _, _)
apply_changes(changes, previous_table, row) ==
    IF changes = <<>> THEN row
    ELSE apply_changes(Tail(changes), previous_table,
                       apply_change(Head(changes), previous_table, row))

\* The database after one migration step.
apply_step(step, db) ==
    CASE step.kind = "CreateTable" ->
             [schema |-> [db.schema EXCEPT !.tables = Append(@, step.step.table)],
              rows |-> [t \in DOMAIN db.rows \cup {step.step.table.name} |->
                           IF t \in DOMAIN db.rows THEN db.rows[t] ELSE <<>>]]
      [] step.kind = "DropTable" ->
             [schema |-> [db.schema EXCEPT
                             !.tables = SelectSeq(@, LAMBDA t : t.name # step.step.name)],
              rows |-> [t \in DOMAIN db.rows \ {step.step.name} |-> db.rows[t]]]
      [] step.kind = "AlterTable" ->
             LET name == step.step.table.name
                 found == FindFirst(db.schema.tables, LAMBDA t : t.name = name)
             IN  IF found = None THEN db
                 ELSE [schema |-> [db.schema EXCEPT
                                      !.tables = [i \in 1..Len(@) |->
                                          IF @[i].name = name THEN step.step.table ELSE @[i]]],
                       rows |-> [t \in DOMAIN db.rows |->
                                    IF t = name
                                    THEN [i \in 1..Len(db.rows[t]) |->
                                             apply_changes(step.step.changes, found[1],
                                                           db.rows[t][i])]
                                    ELSE db.rows[t]]]
      [] OTHER -> db

RECURSIVE apply_steps(_, _)
apply_steps(migration_steps, db) ==
    IF migration_steps = <<>> THEN db
    ELSE apply_steps(Tail(migration_steps), apply_step(Head(migration_steps), db))

\* The apply gate that holds back every migration with a warning.
may_apply_never_forced(diagnostics, forced) ==
    diagnostics.warnings = <<>> /\ diagnostics.unexecutable_migrations = <<>>

\* The apply gate: a migration with warnings is applied only when forced,
\* one with an unexecutable step never.
may_apply(diagnostics, forced) ==
    /\ diagnostics.warnings = <<>> \/ forced
    /\ diagnostics.unexecutable_migrations = <<>>

----------------------------------------------------------------------------
(* The migrations of table Test(id, age): the database holds the previous  *)
(* schema and up to MaxRows rows; the next schema drops the table, drops,  *)
(* adds or alters the column age, or changes nothing.                      *)

MaxRows == 2

ColumnWith(name, family, arity, default, auto_increment) ==
    [name |-> name, tpe |-> [family |-> family, arity |-> arity],
     default |-> default, auto_increment |-> auto_increment]

Arities == {"Required", "Nullable", "List"}

Defaults == {VALUE("30"), NOW, DBGENERATED(""), DBGENERATED("uuid()"), SEQUENCE("seq")}

\* Only a required Int column has a sequence.
AgeColumns(defaults) ==
    {ColumnWith("age", family, arity, default, auto_increment) :
        family \in {"Int", "String"}, arity \in Arities,
        default \in Opt(defaults), auto_increment \in {FALSE}}
    \cup
    {ColumnWith("age", "Int", "Required", default, TRUE) : default \in Opt(defaults)}

TestTable(age) ==
    Table("Test", <<Column("id", "Int", "Required")>> \o age,
          Some([columns |-> <<"id">>, constraint_name |-> None]), <<>>, <<>>)

RowIds == <<"1", "2", "3", "4">>

\* The values the column can hold: only a nullable column holds NULL.
AgeValues(age) ==
    IF age = None THEN {}
    ELSE IF age[1].tpe.arity = "Nullable" THEN {"NULL", "12"}
    ELSE {"12"}

TestRows(age) ==
    IF age = None
    THEN {[i \in 1..n |-> [c \in {"id"} |-> RowIds[i]]] : n \in 0..MaxRows}
    ELSE UNION {{[i \in 1..n |->
                     [c \in {"id", "age"} |-> IF c = "id" THEN RowIds[i] ELSE values[i]]] :
                    values \in [1..n -> AgeValues(age)]} : n \in 0..MaxRows}

InitApply ==
    \E age \in Opt(AgeColumns({VALUE("30")})) :
    \E target \in {EmptySchema}
                  \cup {[tables |-> <<TestTable(a)>>, enums |-> <<>>] :
                           a \in Opt(AgeColumns(Defaults))} :
    \E test_rows \in TestRows(age) :
        /\ previous = [tables |-> <<TestTable(age)>>, enums |-> <<>>]
        /\ next = target
        /\ sql_family = "Postgres"
        /\ diff = EmptyDiff
        /\ steps = <<>>
        /\ pc = "start"
        /\ database = [schema |-> previous, rows |-> [t \in {"Test"} |-> test_rows]]
        /\ force \in BOOLEAN
        /\ plan = EmptyPlan
        /\ warnings = <<>>
        /\ unexecutable_migrations = <<>>
        /\ NoUpCommand
        /\ NoCall

\* SqlDestructiveChangesChecker::check: plan the checks of the steps, then
\* evaluate them on the rows of the database.
Check ==
    /\ pc = "done"
    /\ LET check_plan == check_migration_steps(steps, database.schema, EmptyPlan)
           diagnostics == execute(check_plan, database)
       IN  /\ plan' = check_plan
           /\ warnings' = diagnostics.warnings
           /\ unexecutable_migrations' = diagnostics.unexecutable_migrations
    /\ pc' = "checked"
    /\ UNCHANGED <<previous, next, sql_family, diff, steps, database, force>>
    /\ UNCHANGED <<upvars, callvars>>

\* The end of infer_apply: the steps are applied to the database, or not.
Apply ==
    /\ pc = "checked"
    /\ IF may_apply([warnings |-> warnings,
                     unexecutable_migrations |-> unexecutable_migrations], force)
       THEN /\ database' = apply_steps(steps, database)
            /\ pc' = "applied"
       ELSE /\ database' = database
            /\ pc' = "held"
    /\ UNCHANGED <<previous, next, sql_family, diff, steps, force,
                   plan, warnings, unexecutable_migrations>>
    /\ UNCHANGED <<upvars, callvars>>

NextApply == Diff \/ IntoSteps \/ Check \/ Apply

SpecApply == InitApply /\ [][NextApply]_vars

----------------------------------------------------------------------------
(* The risk report and the apply gate.                                     *)

TestOf(schema) == FindFirst(schema.tables, LAMBDA t : t.name = "Test")

AgeOf(schema) ==
    IF TestOf(schema) = None THEN None
    ELSE FindFirst(TestOf(schema)[1].columns, LAMBDA c : c.name = "age")

\* The column age is in both schemas and differs.
AgeAltered ==
    AgeOf(previous) # None /\ AgeOf(next) # None /\ AgeOf(previous) # AgeOf(next)

AgeDiffer == [previous |-> AgeOf(previous)[1], next |-> AgeOf(next)[1]]

\* The rows of Test and the values of age, before the migration is applied.
RowCount == row_count(database, "Test")
NonNullCount == non_null_count(database, "Test", "age")
NullCount == RowCount - NonNullCount

\* The step from the checked migration to its outcome.
Decided == pc = "checked" /\ pc' # "checked"

\* C15: a migration with at least one warning and no force is not applied,
\* schema and rows stay as they were; one with warnings only, no
\* unexecutable step, and force is applied, the schema is the next one, and
\* the warnings are reported all the same.
C15_WarningsHoldBackUnlessForced ==
    [][Decided =>
          /\ (warnings # <<>> /\ ~force) => (pc' = "held" /\ database' = database)
          /\ (warnings # <<>> /\ unexecutable_migrations = <<>> /\ force)
                 => /\ pc' = "applied"
                    /\ database'.schema = next
                    /\ database' # database
                    /\ warnings' = warnings]_vars

\* A warned migration of a table with rows, held back without force.
C15_Witness ==
    /\ pc = "held"
    /\ ~force
    /\ Len(warnings) = 1
    /\ unexecutable_migrations = <<>>
    /\ RowCount = 2
    /\ database.schema = previous
    /\ previous # next

\* The same, applied with force.
C15_WitnessForced ==
    /\ pc = "applied"
    /\ force
    /\ Len(warnings) = 1
    /\ unexecutable_migrations = <<>>
    /\ database.schema = next
    /\ previous # next

\* The nullable column age becomes required with a literal default, in
\* place (SET NOT NULL).
MadeRequiredInPlace ==
    /\ AgeAltered
    /\ AgeDiffer.previous.tpe.arity = "Nullable"
    /\ AgeDiffer.next.tpe.arity = "Required"
    /\ AgeDiffer.next.default # None
    /\ AgeDiffer.next.default[1].kind = "VALUE"
    /\ expand_postgres_alter_column(AgeDiffer) # None
    /\ SetNotNull \in Range(expand_postgres_alter_column(AgeDiffer)[1])

\* C16: when a nullable column with at least one NULL is made required in
\* place, with a literal default, the report has exactly one unexecutable
\* migration, for that table and column and with the count of NULLs, and
\* without force the migration is not applied: schema and rows stay.
C16_MadeRequiredWithNullsIsUnexecutable ==
    [][(Decided /\ MadeRequiredInPlace /\ NullCount >= 1) =>
          /\ unexecutable_migrations =
                 <<[unexecutable |-> "MadeOptionalFieldRequired", table |-> "Test",
                    column |-> "age", count |-> NullCount]>>
          /\ ~force => (pc' = "held" /\ database' = database)]_vars

\* The rows hold 12 and NULL: the migration is held back
\* and the NULL is still there.
C16_Witness ==
    /\ pc = "held"
    /\ ~force
    /\ MadeRequiredInPlace
    /\ Len(unexecutable_migrations) = 1
    /\ unexecutable_migrations[1].count = 1
    /\ RowCount = 2 /\ NullCount = 1
    /\ database.schema = previous

\* The defaults the claim counts as renderable.
Renderable(default) ==
    /\ default # None
    /\ \/ default[1].kind = "VALUE"
       \/ default[1].kind = "NOW"
       \/ default[1].kind = "DBGENERATED" /\ default[1].arg # ""

\* C17: the default of the next column can be rendered iff it is a literal
\* value, NOW, or a database-generated expression that is not empty; no
\* default, an empty expression and a sequence cannot.
C17_RenderableDefaults ==
    AgeOf(next) # None =>
        LET default == AgeOf(next)[1].default IN
        /\ default_can_be_rendered(default) <=> Renderable(default)
        /\ (\/ default = None
            \/ default = Some(DBGENERATED(""))
            \/ (default # None /\ default[1].kind = "SEQUENCE"))
               => ~default_can_be_rendered(default)

\* The column is recreated as required with an empty database-generated
\* default, which cannot be rendered: the plan holds the unexecutable check.
C17_Witness ==
    /\ pc = "checked"
    /\ AgeAltered
    /\ AgeDiffer.next.default = Some(DBGENERATED(""))
    /\ expand_postgres_alter_column(AgeDiffer) = None
    /\ plan.unexecutable_migrations =
           <<[check |-> "AddedRequiredFieldToTable", column |-> "age", table |-> "Test"]>>

\* Safe < Warning < Unexecutable, as 0 < 1 < 2.
Level(diagnostics) ==
    IF diagnostics.unexecutable_migrations # <<>> THEN 2
    ELSE IF diagnostics.warnings # <<>> THEN 1
    ELSE 0

\* The level reported now, and the level the same plan reports on other
\* rows of table Test.
ReportedLevel ==
    Level([warnings |-> warnings, unexecutable_migrations |-> unexecutable_migrations])

LevelOn(test_rows) ==
    Level(execute(plan, [schema |-> previous, rows |-> [t \in {"Test"} |-> test_rows]]))

\* The rows that are left when some rows are taken away, in their order.
RECURSIVE Kept(_, _)
Kept(test_rows, keep) ==
    IF test_rows = <<>> THEN <<>>
    ELSE Kept(SubSeq(test_rows, 1, Len(test_rows) - 1), keep)
         \o (IF Len(test_rows) \in keep THEN <<test_rows[Len(test_rows)]>> ELSE <<>>)

FewerRows(test_rows) == {Kept(test_rows, keep) : keep \in SUBSET (1..Len(test_rows))}

NonNullIn(test_rows) ==
    Cardinality({i \in 1..Len(test_rows) :
        "age" \in DOMAIN test_rows[i] /\ test_rows[i]["age"] # "NULL"})

TypeAltered == AgeAltered /\ AgeDiffer.previous.tpe.family # AgeDiffer.next.tpe.family

MadeRequired ==
    /\ AgeAltered
    /\ AgeDiffer.previous.tpe.arity = "Nullable"
    /\ AgeDiffer.next.tpe.arity = "Required"

C18_WitnessTypeChange ==
    /\ pc = "checked"
    /\ TypeAltered
    /\ NonNullCount = 1
    /\ ReportedLevel = 1
    /\ LevelOn(<<>>) = 0

\* Table Test is dropped; the column age is dropped from it.
TestDropped == TestOf(previous) # None /\ TestOf(next) = None

AgeDropped == AgeOf(previous) # None /\ TestOf(next) # None /\ AgeOf(next) = None

\* C19: dropping a table with rows reports exactly one warning, with the
\* table and the count of its rows, and nothing unexecutable; dropping a
\* column with non-null values reports exactly one warning, with the
\* column, the table and the count of the non-null values.
C19_DropOfDataWarnsOnce ==
    pc = "checked" =>
        /\ (TestDropped /\ RowCount >= 1)
               => /\ warnings = <<[warning |-> "NonEmptyTableDrop", table |-> "Test",
                                   count |-> RowCount]>>
                  /\ unexecutable_migrations = <<>>
        /\ (AgeDropped /\ NonNullCount >= 1)
               => warnings = <<[warning |-> "NonEmptyColumnDrop", table |-> "Test",
                                column |-> "age", count |-> NonNullCount]>>

\* Table Test is dropped with two rows, one of them with a NULL.
C19_Witness ==
    /\ pc = "checked"
    /\ TestDropped
    /\ RowCount = 2 /\ NullCount = 1
    /\ Len(warnings) = 1
    /\ warnings[1].count = 2

\* The column age is dropped with one non-null value among two rows.
C19_WitnessColumn ==
    /\ pc = "checked"
    /\ AgeDropped
    /\ RowCount = 2 /\ NonNullCount = 1
    /\ Len(warnings) = 1
    /\ warnings[1].count = 1

\* The alteration expands in place to steps on the default, the sequence or
\* DROP NOT NULL only.
NoDataRisk ==
    /\ AgeAltered
    /\ expand_postgres_alter_column(AgeDiffer) # None
    /\ \A i \in 1..Len(expand_postgres_alter_column(AgeDiffer)[1]) :
           expand_postgres_alter_column(AgeDiffer)[1][i].step
               \in {"SetDefault", "DropDefault", "DropNotNull", "AddSequence"}

\* C20: an alteration that expands only to SetDefault, DropDefault,
\* DropNotNull or AddSequence leaves the plan empty, nothing is reported,
\* and the migration is applied with or without force, whatever values the
\* column holds.
C20_NoDataRiskNoCheck ==
    [][(Decided /\ NoDataRisk) =>
          /\ plan = EmptyPlan
          /\ check_alter_column(TestOf(previous)[1], AgeDiffer, plan) = plan
          /\ warnings = <<>>
          /\ unexecutable_migrations = <<>>
          /\ pc' = "applied"
          /\ database'.schema = next
          /\ database'.rows = database.rows]_vars

\* A required column with two values is made optional and loses its
\* default; the migration is applied without force.
C20_Witness ==
    /\ pc = "applied"
    /\ ~force
    /\ NoDataRisk
    /\ Len(expand_postgres_alter_column(AgeDiffer)[1]) = 2
    /\ plan = EmptyPlan
    /\ warnings = <<>>
    /\ database.schema = next
    /\ non_null_count(database, "Test", "age") = 2

----------------------------------------------------------------------------
(* The checks planned for one altered column.                              *)

PlannedChecks == Len(plan.warnings) + Len(plan.unexecutable_migrations)

\* C21: for the one altered column, check_alter_column plans at most one
\* check, also when both the type and the nullability change.
C21_AtMostOneCheckPerColumn ==
    (pc = "checked" /\ AgeAltered) => PlannedChecks <= 1

\* The expansion of the alteration holds a SetType: a type change in place.
InPlaceTypeChange ==
    /\ AgeAltered
    /\ expand_postgres_alter_column(AgeDiffer) # None
    /\ \E i \in 1..Len(expand_postgres_alter_column(AgeDiffer)[1]) :
           expand_postgres_alter_column(AgeDiffer)[1][i].step = "SetType"

ScalarToList ==
    AgeDiffer.previous.tpe.arity # "List" /\ AgeDiffer.next.tpe.arity = "List"

PlansScalarToList ==
    /\ plan.warnings = <<>>
    /\ plan.unexecutable_migrations # <<>>
    /\ \A i \in 1..Len(plan.unexecutable_migrations) :
           plan.unexecutable_migrations[i] =
               [check |-> "MadeScalarFieldIntoArrayField", table |-> "Test", column |-> "age"]

PlansAlterColumnWarning ==
    /\ plan.warnings # <<>>
    /\ \A i \in 1..Len(plan.warnings) :
           plan.warnings[i] = [check |-> "AlterColumn", table |-> "Test", column |-> "age"]
    /\ ~\E i \in 1..Len(plan.unexecutable_migrations) :
           plan.unexecutable_migrations[i].check = "MadeScalarFieldIntoArrayField"

C22_WitnessListToScalar ==
    /\ pc = "applied"
    /\ force
    /\ InPlaceTypeChange
    /\ AgeDiffer.previous.tpe.arity = "List" /\ AgeDiffer.next.tpe.arity = "Required"
    /\ Len(warnings) >= 1
    /\ unexecutable_migrations = <<>>
    /\ database.schema = next

\* The alteration cannot be made in place: the column is dropped and
\* recreated.
DropAndRecreate == AgeAltered /\ expand_postgres_alter_column(AgeDiffer) = None

\* C23: for a column that is dropped and recreated exactly one check is
\* planned: the unexecutable AddedRequiredFieldToTable iff the arity goes
\* from Nullable to Required and the next default cannot be rendered, the
\* alter column warning in every other case.
C23_DropAndRecreateIsNeverSafe ==
    (pc = "checked" /\ DropAndRecreate) =>
        IF /\ AgeDiffer.previous.tpe.arity = "Nullable"
           /\ AgeDiffer.next.tpe.arity = "Required"
           /\ ~Renderable(AgeDiffer.next.default)
        THEN plan = [warnings |-> <<>>,
                     unexecutable_migrations |->
                         <<[check |-> "AddedRequiredFieldToTable",
                            column |-> "age", table |-> "Test"]>>]
        ELSE plan = [warnings |-> <<[check |-> "AlterColumn", table |-> "Test",
                                     column |-> "age"]>>,
                     unexecutable_migrations |-> <<>>]

\* A nullable String column becomes a required Int column with a literal
\* default: recreated, with the warning.
C23_Witness ==
    /\ pc = "checked"
    /\ DropAndRecreate
    /\ AgeDiffer.previous.tpe.arity = "Nullable"
    /\ AgeDiffer.next.tpe.arity = "Required"
    /\ AgeDiffer.next.default = Some(VALUE("30"))
    /\ Len(plan.warnings) = 1
    /\ plan.unexecutable_migrations = <<>>
    /\ NullCount = 1

\* The same with a sequence default: unexecutable.
C23_WitnessUnexecutable ==
    /\ pc = "checked"
    /\ DropAndRecreate
    /\ AgeDiffer.next.default = Some(SEQUENCE("seq"))
    /\ plan.warnings = <<>>
    /\ Len(plan.unexecutable_migrations) = 1
    /\ Len(unexecutable_migrations) = 1

----------------------------------------------------------------------------
(* Altered columns.                                                        *)

\* The AlterColumn changes for the column, in the AlterTable steps of the
\* table.
AlterColumnsOf(table_name, column_name) ==
    Flatten([i \in 1..Len(diff.alter_tables) |->
        IF diff.alter_tables[i].table.name = table_name
        THEN SelectSeq(diff.alter_tables[i].changes,
                 LAMBDA ch : ch.change = "AlterColumn" /\ ch.name = column_name)
        ELSE <<>>])

ColumnsDiffer(pcol, ncol) ==
    \/ pcol.tpe.family # ncol.tpe.family
    \/ pcol.tpe.arity # ncol.tpe.arity
    \/ pcol.default # ncol.default
    \/ pcol.auto_increment # ncol.auto_increment

\* C24: for every column of the same name in the two tables of a matched
\* pair there is exactly one AlterColumn when type family, arity, default
\* or auto-increment differ, named after the previous column and carrying
\* the next column as it is, and none when they do not.
C24_OneAlterColumnPerChangedColumn ==
    pc # "start" =>
        \A pr \in MatchedTables :
            \A pcol \in Range(pr[1].columns), ncol \in Range(pr[2].columns) :
                pcol.name = ncol.name =>
                    IF ColumnsDiffer(pcol, ncol)
                    THEN AlterColumnsOf(pr[2].name, pcol.name)
                             = <<[change |-> "AlterColumn", name |-> pcol.name,
                                  column |-> ncol]>>
                    ELSE AlterColumnsOf(pr[2].name, pcol.name) = <<>>

\* The column age differs in its default only and is altered; the column
\* id does not differ and is not.
C24_Witness ==
    /\ pc = "diffed"
    /\ AgeAltered
    /\ AgeDiffer.previous.tpe = AgeDiffer.next.tpe
    /\ AgeDiffer.previous.auto_increment = AgeDiffer.next.auto_increment
    /\ Len(AlterColumnsOf("Test", "age")) = 1
    /\ AlterColumnsOf("Test", "age")[1].column.default = Some(NOW)
    /\ AlterColumnsOf("Test", "id") = <<>>

----------------------------------------------------------------------------
(* Foreign keys in full: table "A" with columns x and y and at most one    *)
(* foreign key in each snapshot; its constraint name, constrained columns, *)
(* referenced table, referenced columns and on-delete action vary.         *)

ForeignKeyWith(constraint_name, columns, referenced_table, referenced_columns, on_delete_action) ==
    [constraint_name |-> constraint_name, columns |-> columns,
     referenced_table |-> referenced_table, referenced_columns |-> referenced_columns,
     on_delete_action |-> on_delete_action]

ForeignKeyActions == {"NoAction", "Cascade"}

DetailedForeignKeys ==
    {ForeignKeyWith(name, columns, target, referenced, action) :
        name \in Opt({"fk", "fk2"}),
        columns \in {<<"x">>, <<"x", "y">>},
        target \in {"A", "a"},
        referenced \in {<<"x">>, <<"y">>, <<"x", "y">>},
        action \in ForeignKeyActions}

InitDetailedForeignKeys ==
    \E fp \in Opt(DetailedForeignKeys), fn \in Opt(DetailedForeignKeys) :
        /\ previous = [tables |-> <<ForeignKeyTable("A", "Int", fp), ForeignKeyTable("a", "Int", <<>>)>>,
                       enums |-> <<>>]
        /\ next = [tables |-> <<ForeignKeyTable("A", "Int", fn), ForeignKeyTable("a", "Int", <<>>)>>,
                   enums |-> <<>>]
        /\ sql_family \in SqlFamilies

InitForeignKeyDiff ==
    /\ InitDetailedForeignKeys
    /\ diff = EmptyDiff
    /\ steps = <<>>
    /\ pc = "start"
    /\ NoDatabase
    /\ NoUpCommand
    /\ NoCall

SpecForeignKeys == InitForeignKeyDiff /\ [][Next]_vars

\* The two foreign keys agree in the constrained columns and their types,
\* in the referenced table and in the number of referenced columns.
DifferInDetailOnly(ptable, pfk, ntable, nfk) ==
    /\ pfk # nfk
    /\ pfk.columns = nfk.columns
    /\ \A i \in 1..Len(pfk.columns) :
           FamilyOf(ptable, pfk.columns[i]) = FamilyOf(ntable, nfk.columns[i])
    /\ pfk.referenced_table = nfk.referenced_table
    /\ Len(pfk.referenced_columns) = Len(nfk.referenced_columns)

\* The table pairs with one foreign key in each snapshot, the two differing
\* in on-delete action, referenced column names or constraint name only.
DetailChangedForeignKeys ==
    {pr \in MatchedTables :
        /\ Len(pr[1].foreign_keys) = 1 /\ Len(pr[2].foreign_keys) = 1
        /\ HasColumns(pr[1], pr[1].foreign_keys[1].columns)
        /\ HasColumns(pr[2], pr[2].foreign_keys[1].columns)
        /\ DifferInDetailOnly(pr[1], pr[1].foreign_keys[1], pr[2], pr[2].foreign_keys[1])}

----------------------------------------------------------------------------
(* The up command (migration-engine/core/src/commands/up.rs): it applies   *)
(* the imperative migrations of its input that come after the last applied *)
(* one and records each in persistence.                                    *)

MaxMigrations == 3

MigrationNames == {"m1", "m2"}

\* ImperativeMigration; the schema text tells the entries of one input apart.
ImperativeMigration(name, prisma_schema) ==
    [name |-> name, prisma_schema |-> prisma_schema]

UpInputs ==
    UNION {{[i \in 1..n |-> ImperativeMigration(names[i], i)] :
               names \in [1..n -> MigrationNames]} : n \in 0..MaxMigrations}

\* What persistence.last() may report: nothing, or a migration of one of the
\* names, or of a name that is not in the input.
LastMigrations == Opt(MigrationNames \cup {"m0"})

\* Iterator::skip_while(|saved_migration| saved_migration.name != name)
RECURSIVE skip_while_not_named(_, _)
skip_while_not_named(input_migrations, name) ==
    IF input_migrations = <<>> THEN <<>>
    ELSE IF Head(input_migrations).name # name
         THEN skip_while_not_named(Tail(input_migrations), name)
    ELSE input_migrations

\* collect_unapplied without the skip of the last applied migration.
collect_unapplied_from_last(input_migrations, last) ==
    IF last # None
    THEN skip_while_not_named(input_migrations, last[1])
    ELSE input_migrations

\* collect_unapplied taking the whole input when no entry has the name.
collect_unapplied_or_all(input_migrations, last) ==
    IF last # None
    THEN LET rest == skip_while_not_named(input_migrations, last[1])
         IN  IF rest = <<>> THEN input_migrations ELSE Tail(rest)
    ELSE input_migrations

\* The unapplied migrations: after Some(last), the entries after the first
\* one of that name (skip_while, next, collect); after None, all of them.
collect_unapplied(input_migrations, last) ==
    IF last # None
    THEN LET rest == skip_while_not_named(input_migrations, last[1])
         IN  IF rest = <<>> THEN <<>> ELSE Tail(rest)
    ELSE input_migrations

\* persisted_migration left in the status Pending.
persisted_migration_pending(migration) ==
    [name |-> migration.name, datamodel_string |-> migration.prisma_schema,
     datamodel_steps |-> <<>>, status |-> "Pending"]

\* Migration::new(NewMigration { .. }) with the status set to
\* MigrationSuccess.
persisted_migration(migration) ==
    [name |-> migration.name, datamodel_string |-> migration.prisma_schema,
     datamodel_steps |-> <<>>, status |-> "MigrationSuccess"]

InitUp ==
    /\ migrations \in UpInputs
    /\ last_applied_migration = None
    /\ unapplied_migrations = <<>>
    /\ applied = <<>>
    /\ persistence = <<>>
    /\ result = None
    /\ pc = "up_start"
    /\ previous = EmptySchema
    /\ next = EmptySchema
    /\ sql_family = "Postgres"
    /\ diff = EmptyDiff
    /\ steps = <<>>
    /\ NoDatabase
    /\ query_arguments = [take |-> None]
    /\ a_cols = <<>>
    /\ b_cols = <<>>

UpUnchanged ==
    UNCHANGED <<previous, next, sql_family, diff, steps, checkvars,
                migrations, query_arguments, a_cols, b_cols>>

\* persistence.last().await? and the collection of the unapplied
\* migrations.
PersistenceLast ==
    /\ pc = "up_start"
    /\ \/ /\ result' = Some("Err")
          /\ pc' = "returned"
          /\ UNCHANGED <<last_applied_migration, unapplied_migrations>>
       \/ \E last \in LastMigrations :
              /\ last_applied_migration' = last
              /\ unapplied_migrations' = collect_unapplied(migrations, last)
              /\ pc' = "apply"
              /\ UNCHANGED result
    /\ UNCHANGED <<applied, persistence>>
    /\ UpUnchanged

\* connector.apply_imperative_migration(migration).await? for the next
\* unapplied migration.
ApplyImperativeMigration ==
    /\ pc = "apply"
    /\ Len(applied) < Len(unapplied_migrations)
    /\ \/ /\ applied' = Append(applied, unapplied_migrations[Len(applied) + 1])
          /\ pc' = "create"
          /\ UNCHANGED result
       \/ /\ result' = Some("Err")
          /\ pc' = "returned"
          /\ UNCHANGED applied
    /\ UNCHANGED <<last_applied_migration, unapplied_migrations, persistence>>
    /\ UpUnchanged

\* persistence.create(persisted_migration).await? for the migration just
\* applied.
PersistenceCreate ==
    /\ pc = "create"
    /\ \/ /\ persistence' = Append(persistence,
                                persisted_migration(unapplied_migrations[Len(applied)]))
          /\ pc' = "apply"
          /\ UNCHANGED result
       \/ /\ result' = Some("Err")
          /\ pc' = "returned"
          /\ UNCHANGED persistence
    /\ UNCHANGED <<last_applied_migration, unapplied_migrations, applied>>
    /\ UpUnchanged

\* Ok(UpOutput {}) after the loop.
ReturnUpOutput ==
    /\ pc = "apply"
    /\ Len(applied) = Len(unapplied_migrations)
    /\ result' = Some("Ok")
    /\ pc' = "returned"
    /\ UNCHANGED <<last_applied_migration, unapplied_migrations, applied, persistence>>
    /\ UpUnchanged

NextUp == PersistenceLast \/ ApplyImperativeMigration \/ PersistenceCreate \/ ReturnUpOutput

SpecUp == InitUp /\ [][NextUp]_vars

IsPrefix(s, t) == Len(s) <= Len(t) /\ s = SubSeq(t, 1, Len(s))

\* The positions of the input entries named as the last applied migration.
PositionsOfLast ==
    {i \in 1..Len(migrations) : Some(migrations[i].name) = last_applied_migration}

\* The input entries after the first one named as the last applied
\* migration; the whole input when none was reported.
AfterLastApplied ==
    IF last_applied_migration = None THEN migrations
    ELSE IF PositionsOfLast = {} THEN <<>>
    ELSE LET first == CHOOSE i \in PositionsOfLast : \A j \in PositionsOfLast : i <= j
         IN  SubSeq(migrations, first + 1, Len(migrations))

\* C26: the migrations applied are, in input order, the input entries after
\* the first one named as the last applied migration, each once, or the
\* whole input when persistence reports none; all of them when the command
\* returns its output.
C26_AppliesMigrationsAfterLastApplied ==
    pc # "up_start" =>
        /\ IsPrefix(applied, AfterLastApplied)
        /\ result = Some("Ok") => applied = AfterLastApplied

\* The last applied migration m1 is the second and third of three entries:
\* the third alone is applied.
C26_Witness ==
    /\ result = Some("Ok")
    /\ last_applied_migration = Some("m1")
    /\ Len(migrations) = 3
    /\ migrations[1].name = "m2" /\ migrations[2].name = "m1" /\ migrations[3].name = "m1"
    /\ applied = <<migrations[3]>>

\* Nothing is reported and both entries are applied from the first.
C26_WitnessNoLast ==
    /\ result = Some("Ok")
    /\ unapplied_migrations # <<>>
    /\ last_applied_migration = None
    /\ Len(migrations) = 2
    /\ applied = migrations

Recorded(migration) ==
    [name |-> migration.name, datamodel_string |-> migration.prisma_schema,
     datamodel_steps |-> <<>>, status |-> "MigrationSuccess"]

RecordedInOrder ==
    /\ Len(persistence) <= Len(unapplied_migrations)
    /\ \A i \in 1..Len(persistence) : persistence[i] = Recorded(unapplied_migrations[i])
    /\ IsPrefix(applied, unapplied_migrations)
    /\ Len(persistence) <= Len(applied)
    /\ Len(applied) <= Len(persistence) + 1

\* C27: the migrations recorded are a prefix of the unapplied list, each
\* with status MigrationSuccess and recorded after it was applied and before
\* the next one is applied; once an error is returned nothing more is
\* applied or recorded.
C27_RecordedIsPrefixOfUnapplied ==
    /\ []RecordedInOrder
    /\ [][/\ Len(persistence') > Len(persistence)
              => (Len(applied) = Len(persistence') /\ applied' = applied)
          /\ Len(applied') > Len(applied)
              => (Len(persistence) = Len(applied) /\ persistence' = persistence)
          /\ (result = Some("Err") \/ result' = Some("Err"))
              => (applied' = applied /\ persistence' = persistence /\ pc' = "returned")]_vars

\* The second of three applies failed: one migration is recorded, and the
\* third was never applied.
C27_Witness ==
    /\ result = Some("Err")
    /\ Len(unapplied_migrations) = 3
    /\ Len(persistence) = 1
    /\ persistence[1].name = unapplied_migrations[1].name
    /\ persistence[1].status = "MigrationSuccess"
    /\ applied = <<unapplied_migrations[1]>>

\* The record of the second migration failed after its apply.
C27_WitnessCreateFailed ==
    /\ result = Some("Err")
    /\ Len(unapplied_migrations) = 3
    /\ Len(persistence) = 1
    /\ Len(applied) = 2

\* C28: when the name of the last applied migration is the name of no input
\* entry, nothing is applied or recorded and the command returns its output
\* and no error.
C28_UnknownLastAppliesNothing ==
    (pc # "up_start" /\ last_applied_migration # None /\ PositionsOfLast = {}) =>
        /\ unapplied_migrations = <<>>
        /\ applied = <<>>
        /\ persistence = <<>>
        /\ pc \in {"apply", "returned"}
        /\ pc = "returned" => result = Some("Ok")

\* The last applied migration m0 is none of the three entries.
C28_Witness ==
    /\ pc = "returned"
    /\ result = Some("Ok")
    /\ last_applied_migration = Some("m0")
    /\ Len(migrations) = 3
    /\ applied = <<>>
    /\ persistence = <<>>

----------------------------------------------------------------------------
(* QueryArguments::take_abs and needs_reversed_order                       *)
(* (query-connector/src/query_arguments.rs). take is an i64; the model     *)
(* keeps two's complement integers of TakeBits bits.                       *)

TakeBits == 8

TakeModulus == 2 ^ TakeBits

MinTake == 0 - 2 ^ (TakeBits - 1)

MaxTake == 2 ^ (TakeBits - 1) - 1

\* The value of the width that is congruent to v.
wrapping(v) == ((v - MinTake) % TakeModulus) + MinTake

\* t * -1: the product when it fits; when it does not, a build with
\* overflow checks panics and a build without them wraps.
times_minus_one(t) ==
    IF 0 - t > MaxTake
    THEN {[panic |-> TRUE, value |-> None],
          [panic |-> FALSE, value |-> Some(wrapping(0 - t))]}
    ELSE {[panic |-> FALSE, value |-> Some(0 - t)]}

\* QueryArguments::take_abs: the outcomes of the call.
take_abs(self) ==
    IF self.take = None THEN {[panic |-> FALSE, value |-> None]}
    ELSE IF self.take[1] < 0 THEN times_minus_one(self.take[1])
    ELSE {[panic |-> FALSE, value |-> self.take]}

\* QueryArguments::needs_reversed_order
needs_reversed_order(self) ==
    IF self.take = None THEN FALSE ELSE self.take[1] < 0

\* No migration is computed, checked or applied.
NoMigration ==
    /\ previous = EmptySchema
    /\ next = EmptySchema
    /\ sql_family = "Postgres"
    /\ diff = EmptyDiff
    /\ steps = <<>>
    /\ NoDatabase

InitQueryArguments ==
    /\ query_arguments \in [take : Opt(MinTake..MaxTake)]
    /\ a_cols = <<>>
    /\ b_cols = <<>>
    /\ result = None
    /\ pc = "call"
    /\ NoMigration
    /\ NoUpCommand

CallUnchanged ==
    UNCHANGED <<previous, next, sql_family, diff, steps, checkvars, upvars,
                query_arguments, a_cols, b_cols>>

TakeAbs ==
    /\ pc = "call"
    /\ \E outcome \in take_abs(query_arguments) :
           result' = Some([fn |-> "take_abs", panic |-> outcome.panic,
                           value |-> outcome.value])
    /\ pc' = "returned"
    /\ CallUnchanged

NeedsReversedOrder ==
    /\ pc = "call"
    /\ result' = Some([fn |-> "needs_reversed_order", panic |-> FALSE,
                       value |-> needs_reversed_order(query_arguments)])
    /\ pc' = "returned"
    /\ CallUnchanged

NextQueryArguments == TakeAbs \/ NeedsReversedOrder

SpecQueryArguments == InitQueryArguments /\ [][NextQueryArguments]_vars

AbsoluteValue(t) == IF t < 0 THEN 0 - t ELSE t

\* C29: take_abs returns None when take is None and otherwise the absolute
\* value of take, which is not negative, for every take of the width;
\* needs_reversed_order returns true iff take is present and negative.
C29_TakeAbsIsAbsoluteValue ==
    (pc = "returned" /\ result # None) =>
        LET returned == result[1]
            take == query_arguments.take
        IN  /\ returned.fn = "take_abs" =>
                   /\ ~returned.panic
                   /\ take = None => returned.value = None
                   /\ take # None =>
                          /\ returned.value = Some(AbsoluteValue(take[1]))
                          /\ returned.value[1] >= 0
            /\ returned.fn = "needs_reversed_order" =>
                   returned.value = (take # None /\ take[1] < 0)

----------------------------------------------------------------------------
(* columns_match (sql-introspection-connector/src/misc_helpers.rs).        *)

MaxColumnList == 2

IndexColumnNames == {"x", "y", "z"}

IndexColumnLists == UNION {[1..n -> IndexColumnNames] : n \in 0..MaxColumnList}

\* a_cols.len() == b_cols.len()
\*     && a_cols.iter().all(|a_col| b_cols.iter().any(|b_col| a_col == b_col))
columns_match(a, b) ==
    /\ Len(a) = Len(b)
    /\ \A i \in 1..Len(a) : \E j \in 1..Len(b) : a[i] = b[j]

InitColumnsMatch ==
    /\ a_cols \in IndexColumnLists
    /\ b_cols \in IndexColumnLists
    /\ query_arguments = [take |-> None]
    /\ result = None
    /\ pc = "call"
    /\ NoMigration
    /\ NoUpCommand

ColumnsMatch ==
    /\ pc = "call"
    /\ result' = Some(columns_match(a_cols, b_cols))
    /\ pc' = "returned"
    /\ CallUnchanged

NextColumnsMatch == ColumnsMatch

SpecColumnsMatch == InitColumnsMatch /\ [][NextColumnsMatch]_vars

Occurrences(s, x) == Cardinality({i \in 1..Len(s) : s[i] = x})

SameMultiset(a, b) == \A x \in IndexColumnNames : Occurrences(a, x) = Occurrences(b, x)

\* C30: columns_match(a, b) is true iff a and b hold the same names with the
\* same multiplicities, and it returns the same for (b, a).
C30_ColumnsMatchIsMultisetEquality ==
    pc = "returned" =>
        /\ result = Some(SameMultiset(a_cols, b_cols))
        /\ result = Some(columns_match(b_cols, a_cols))

====
